---- MODULE Spec2Model ----
(***************************************************************************)
(* State-machine model of openagent.                                       *)
(*                                                                         *)
(* Part 1: the PTY session pool of src/api/console.rs: the pool map behind *)
(* its RwLock, every PooledSession behind its own Mutex, the WebSocket     *)
(* handlers (handle_console / handle_workspace_shell, which share          *)
(* handle_existing_session and have the same pool logic), the background   *)
(* cleanup task, and the reader / output-pump tasks of a session.          *)
(*                                                                         *)
(* The server runs on tokio's multi-threaded runtime: two tasks interleave *)
(* at every lock acquisition, and a try_lock fails while another task is   *)
(* inside the critical section.  A critical section that holds a session's *)
(* Mutex is therefore two steps (acquire; body and release).               *)
(*                                                                         *)
(* Part 2: the workspace store of src/workspace.rs: the workspace map      *)
(* behind its RwLock, workspaces.json, the container directories, the      *)
(* construction of the store (load, default workspace, orphan recovery,    *)
(* save), add / update / delete with their save_to_disk, and               *)
(* build_chroot_workspace on the caller's copy of a workspace.             *)
(*                                                                         *)
(* Part 3: the chunked upload of src/api/fs.rs (upload_chunk,              *)
(* upload_finalize) over the chunk directory, the assembled file and the   *)
(* destination, and the path-component sanitizer.                          *)
(*                                                                         *)
(* Part 4: the tools and endpoints that stand alone: the SSRF guard and    *)
(* download_from_url of src/api/fs.rs, run_command of                      *)
(* src/tools/terminal.rs (validation, spawn, stdin, timeout, truncation),  *)
(* and the desktop stream of src/api/desktop_stream.rs with its receive    *)
(* and capture tasks.                                                      *)
(*                                                                         *)
(* Part 5: the workspace shell of src/api/console.rs next to the store     *)
(* (workspace_shell_ws, handle_workspace_shell,                            *)
(* handle_new_workspace_shell), the graceful shutdown of                   *)
(* src/api/routes.rs over the control sessions, and                        *)
(* ensure_skill_name_in_frontmatter of src/workspace.rs.                   *)
(*                                                                         *)
(* Part 6: the task endpoints of src/api/routes.rs (create_task,           *)
(* stop_task, run_agent_task) over the task map, and the secrets store of  *)
(* src/secrets/store.rs: its operations over the registries and the crypto *)
(* engine taken one at a time, and its three RwLocks (config, crypto,      *)
(* registries) under concurrent callers, every function being the          *)
(* sequence of its read / write / drop calls on a fair lock.               *)
(***************************************************************************)
EXTENDS Integers, Sequences, FiniteSets, TLC

\* ---------------------------------------------------------------- bounds
NumHandlers == 2
MaxSessions == 2
MaxTicks == 5
MaxChunks == 2
MaxFrames == 2
NumClients == 2
MaxWs == 3
MaxBoots == 2
MaxParts == 2
MaxStrLen == 4
MaxAddrs == 2
MaxHops == 6
MaxPrefixes == 2
MaxWaits == 2
MaxMsgs == 2
MaxShots == 2
MaxBlocks == 5
MaxControls == 2
MaxMissions == 3
MaxTasks == 2
NumCallers == 3

\* ------------------------------------------------------ program constants
\* console.rs:37  const SESSION_POOL_TIMEOUT: Duration = Duration::from_secs(30)
SESSION_POOL_TIMEOUT == 30
\* console.rs:40  const CLEANUP_INTERVAL: Duration = Duration::from_secs(10)
CLEANUP_INTERVAL == 10

\* The clock advances in steps of one cleanup interval (seconds).
TickLen == CLEANUP_INTERVAL
MaxTime == MaxTicks * TickLen

Handlers == 1..NumHandlers
SessionIds == 1..MaxSessions
\* console_ws: "dev:default"; workspace_shell_ws: "workspace:{id}:dev"
Keys == {"dev:default", "workspace:w1:dev"}

NoSession == 0
Free == 0
Reaper == NumHandlers + 1
None == -1

VARIABLES
    sessions,     \* SessionPool.sessions: key -> session id (NoSession: no entry)
    rwlock,       \* holder of the write lock of SessionPool.sessions, or Free
    sess,         \* every PooledSession ever created, by id
    nextSid,      \* next session id to allocate
    pc,           \* position of each WebSocket handler
    hkey,         \* session_key of each handler
    hsess,        \* the Arc<Mutex<PooledSession>> a handler holds
    rpc,          \* position of the cleanup task
    expired,      \* the cleanup task's `expired` list
    nextSweep,    \* when the cleanup task's sleep ends
    now,          \* Instant::now(), seconds
    produced,     \* per session: how many chunks the reader task has read
    from_pty,     \* per session: the output channel (from_pty_tx -> from_pty_rx)
    inflight,     \* per handler: the chunk its output pump received and is sending
    delivered,    \* per session: the chunks written to client sockets, in order
    sent,         \* how many frames the sockets have received, all together
    to_pty,       \* per session: the input channel (to_pty_tx -> to_pty_rx)
    applied,      \* per session: the messages the writer task has applied, in order
    up,           \* the WorkspaceStore is constructed and the server is serving
    workspaces,   \* WorkspaceStore.workspaces: id -> Workspace (Absent: no entry)
    readers,      \* the clients that hold a read guard of WorkspaceStore.workspaces
    disk,         \* <working_dir>/.openagent/workspaces.json
    dirs,         \* the directories under .openagent/containers and .openagent/chroots
    nextId,       \* the next id Uuid::new_v4() returns
    boots,        \* how many times the store has been constructed
    cpc,          \* position of each client request
    cws,          \* the Workspace value a client request works on
    call,         \* the last store operation of each client and what it returned
    chunk_dir,    \* <tempdir>/open_agent_chunks_u1: whether it exists, its entries
    assembled,    \* <tempdir>/open_agent_assembled_u1
    dest,         \* the destination file
    fpc,          \* position of the upload_finalize request
    fN,           \* its total_chunks
    fi,           \* its loop index
    fret,         \* what it returned
    racing,       \* a chunk arrived while upload_finalize was running
    san_in,       \* the string given to the sanitizer
    san_out,      \* what the sanitizer returned
    ssrf_url,     \* the URL given to the SSRF guard
    ssrf_ret,     \* what the guard returned
    dl_url,       \* download_from_url: req.url
    dl_hops,      \* the redirects the servers answer with, one after the other
    dl_pc,        \* position of the download request
    dl_sent,      \* the URLs a request has been sent to
    dl_final,     \* response.url()
    dl_status,    \* the status code the handler returned
    dl_dest,      \* the URL whose body was written to the destination path
    rc_cmd,       \* run_command: args["command"]
    rc_args,      \* the other arguments of the call
    rc_pc,        \* position of the call
    rc_child,     \* the process: not spawned, running, exited
    rc_read,      \* the process has read its standard input
    rc_spawns,    \* how many processes the call has spawned
    rc_now,       \* the clock, in milliseconds
    rc_started,   \* when the process was spawned
    rc_deadline,  \* when the timeout of wait_with_output expires
    rc_ret,       \* what the call returned
    params,       \* desktop stream: the fps and quality of the query
    client,       \* the client's end of the WebSocket: open or closed
    msgs,         \* how many messages the client has sent
    ws_receiver,  \* the messages the receive task has not read yet
    cmd_rx,       \* the commands the capture task has not read yet
    recv_task,    \* the receive task: running, ended, aborted
    stream_task,  \* the capture task: the await it is at, ended, aborted
    select,       \* handle_desktop_stream: at its select, or returned
    paused,
    fps,          \* the fps in effect
    current_quality,
    frame_interval,
    frame_count,  \* the frames captured
    skill_content, \* SkillContent.content of a skill
    skill_md,     \* what was written to its SKILL.md
    resp,         \* handler -> the response to its workspace-shell request
    workspace_id, \* handler -> the workspace its shell request names
    shell_ws,     \* session -> the workspace its shell was spawned for
    control_sessions, \* the sessions of the control hub
    actor,        \* control session -> the state of its actor
    cmd_queue,    \* control session -> a GracefulShutdown is in its command channel
    respond,      \* control session -> the oneshot channel of its command
    missions,     \* mission -> its status
    sd_pc,        \* where shutdown_signal is
    sd_i,         \* the session shutdown_signal is at
    all_interrupted, \* the ids shutdown_signal reports
    tasks,  \* task -> its status in state.tasks
    run_pc,  \* task -> where its run_agent_task is
    stop_ret, \* task -> what the last stop_task for it returned
    crypto,  \* the passphrase the crypto engine holds
    registries,  \* registry name -> its secrets
    sec_ret, \* what the last operation on the secrets store returned
    readers_of,  \* lock -> the callers that hold a read guard
    writer_of,  \* lock -> the caller that holds the write guard
    waiters,  \* lock -> the requests that wait, in order
    program,  \* caller -> the lock operations of its call
    step_at  \* caller -> its position in them

poolVars == <<sessions, rwlock, sess, nextSid, pc, hkey, hsess, rpc, expired, nextSweep, now>>
ioVars == <<produced, from_pty, inflight, delivered>>
inVars == <<sent, to_pty, applied>>
consoleVars == <<poolVars, ioVars, inVars>>

storeVars == <<up, workspaces, readers, disk, dirs, nextId, boots, cpc, cws, call>>

\* The variables of the other parts of the program, for each part.
uploadVars == <<chunk_dir, assembled, dest, fpc, fN, fi, fret, racing>>
sanVars == <<san_in, san_out>>

ssrfVars == <<ssrf_url, ssrf_ret>>

\* The download, command, stream and shutdown parts together, and the parts
\* before them together.
dlVars == <<dl_url, dl_hops, dl_pc, dl_sent, dl_final, dl_status, dl_dest>>
rcVars == <<rc_cmd, rc_args, rc_pc, rc_child, rc_read, rc_spawns, rc_now, rc_started, rc_deadline, rc_ret>>
dsVars == <<params, client, msgs, ws_receiver, cmd_rx, recv_task, stream_task, select, paused, fps,
            current_quality, frame_interval, frame_count>>
skillVars == <<skill_content, skill_md>>
shellVars == <<resp, workspace_id, shell_ws>>
sdVars == <<control_sessions, actor, cmd_queue, respond, missions, sd_pc, sd_i, all_interrupted>>
taskVars == <<tasks, run_pc, stop_ret>>
secVars == <<crypto, registries, sec_ret>>
lockVars == <<readers_of, writer_of, waiters, program, step_at>>
toolVars == <<ssrfVars, dlVars, rcVars, dsVars, skillVars, shellVars, sdVars, taskVars, secVars, lockVars>>
baseVars == <<consoleVars, storeVars, uploadVars, sanVars>>

offConsole == <<storeVars, uploadVars, sanVars, toolVars>>
offStore == <<consoleVars, uploadVars, sanVars, toolVars>>
offUpload == <<consoleVars, storeVars, sanVars, toolVars>>
offSan == <<consoleVars, storeVars, uploadVars, toolVars>>
offSsrf == <<baseVars, dlVars, rcVars, dsVars, skillVars, shellVars, sdVars, taskVars, secVars, lockVars>>
offDl == <<baseVars, ssrfVars, rcVars, dsVars, skillVars, shellVars, sdVars, taskVars, secVars, lockVars>>
offRc == <<baseVars, ssrfVars, dlVars, dsVars, skillVars, shellVars, sdVars, taskVars, secVars, lockVars>>
offDs == <<baseVars, ssrfVars, dlVars, rcVars, skillVars, shellVars, sdVars, taskVars, secVars, lockVars>>
offShell == <<storeVars, uploadVars, sanVars, ssrfVars, dlVars, rcVars, dsVars, skillVars, sdVars, taskVars, secVars, lockVars>>
offSd == <<baseVars, ssrfVars, dlVars, rcVars, dsVars, skillVars, shellVars, taskVars, secVars, lockVars>>
offTask == <<storeVars, uploadVars, sanVars, consoleVars, ssrfVars, dlVars, rcVars, dsVars, skillVars, shellVars, sdVars, secVars, lockVars>>
offSec == <<storeVars, uploadVars, sanVars, consoleVars, ssrfVars, dlVars, rcVars, dsVars, skillVars, shellVars, sdVars, taskVars, lockVars>>
offLock == <<storeVars, uploadVars, sanVars, consoleVars, ssrfVars, dlVars, rcVars, dsVars, skillVars, shellVars, sdVars, taskVars, secVars>>
offSkill == <<baseVars, ssrfVars, dlVars, rcVars, dsVars, shellVars, sdVars, taskVars, secVars, lockVars>>

vars == <<baseVars, toolVars>>

NoChunk == 0

\* A slot of `sess` that no session has been created in yet.
NoRecord ==
    [key |-> "", in_use |-> FALSE, disconnected_at |-> None, child |-> "none",
     kills |-> 0, lock |-> Free, exited |-> FALSE]

Created(s) == s \in SessionIds /\ s < nextSid

ConsoleInit ==
    /\ sessions = [k \in Keys |-> NoSession]
    /\ rwlock = Free
    /\ sess = [s \in SessionIds |-> NoRecord]
    /\ nextSid = 1
    /\ pc = [h \in Handlers |-> "idle"]
    /\ hkey = [h \in Handlers |-> ""]
    /\ hsess = [h \in Handlers |-> NoSession]
    /\ rpc = "sleep"
    /\ expired = {}
    /\ nextSweep = CLEANUP_INTERVAL
    /\ now = 0
    /\ produced = [s \in SessionIds |-> 0]
    /\ from_pty = [s \in SessionIds |-> <<>>]
    /\ inflight = [h \in Handlers |-> NoChunk]
    /\ delivered = [s \in SessionIds |-> <<>>]
    /\ sent = 0
    /\ to_pty = [s \in SessionIds |-> <<>>]
    /\ applied = [s \in SessionIds |-> <<>>]

\* ------------------------------------------------------------ PooledSession

\* struct PooledSession as handle_new_session builds it: in use, no timestamp,
\* the child in its killer handle, writer and reader tasks running.
NewSession(k) ==
    [key |-> k, in_use |-> TRUE, disconnected_at |-> None, child |-> "present",
     kills |-> 0, lock |-> Free, exited |-> FALSE]

\* Senders of the input channel that are still alive: the PooledSession's
\* to_pty_tx (the session is held by its pool entry and by every handler that
\* holds the Arc) and the clones the handlers bridge with.
HasSenders(s) ==
    \/ \E k \in Keys : sessions[k] = s
    \/ \E h \in Handlers : hsess[h] = s

\* to_pty_tx.is_closed(): the receiver was dropped.  to_pty_rx lives in the
\* writer task, whose loop `while let Some(msg) = to_pty_rx.blocking_recv()`
\* ignores write errors and ends only once every sender is dropped: a child
\* that exits does not close the input channel.
IsClosed(s) == ~HasSenders(s)

\* Mutant of Reusable: the in_use test inverted.
ReusableInverted(s) == sess[s].in_use /\ ~IsClosed(s)

\* The reuse test of handle_console / handle_workspace_shell.
Reusable(s) == ~sess[s].in_use /\ ~IsClosed(s)

\* child_guard.take() then child.kill(): kill at most what is still there.
\* A killed child exits, so the reader task reads EOF.
KillChild(ss, s) ==
    IF ss[s].child = "present"
    THEN [ss EXCEPT ![s].child = "taken", ![s].kills = @ + 1, ![s].exited = TRUE]
    ELSE ss

\* session.try_lock() succeeds.
TryLock(s) == sess[s].lock = Free

\* Mutant of MarkInUse: the timestamp is not cleared.
MarkInUseKeepStamp(s) ==
    [sess EXCEPT ![s].in_use = TRUE, ![s].lock = Free]

\* s.in_use = true; s.disconnected_at = None; drop(s)
MarkInUse(s) ==
    [sess EXCEPT ![s].in_use = TRUE, ![s].disconnected_at = None, ![s].lock = Free]

\* s.in_use = false; s.disconnected_at = Some(Instant::now()); the guard drops
MarkIdle(s) ==
    [sess EXCEPT ![s].in_use = FALSE, ![s].disconnected_at = now, ![s].lock = Free]

\* ------------------------------------------------------ WebSocket handlers

\* on_upgrade: a WebSocket upgrade for key k starts a handler.
Upgrade(h, k) ==
    /\ pc[h] = "idle"
    /\ pc' = [pc EXCEPT ![h] = "read_pool"]
    /\ hkey' = [hkey EXCEPT ![h] = k]
    /\ UNCHANGED <<sessions, rwlock, sess, nextSid, hsess, rpc, expired, nextSweep, now, ioVars, inVars, offConsole>>

\* sessions.read().await; sessions.get(&session_key).cloned()
ReadPool(h) ==
    /\ pc[h] = "read_pool"
    /\ rwlock = Free
    /\ hsess' = [hsess EXCEPT ![h] = sessions[hkey[h]]]
    /\ pc' = [pc EXCEPT ![h] = IF sessions[hkey[h]] = NoSession THEN "spawn" ELSE "lock_check"]
    /\ UNCHANGED <<sessions, rwlock, sess, nextSid, hkey, rpc, expired, nextSweep, now, ioVars, inVars, offConsole>>

\* let mut s = session.lock().await
LockSession(h) ==
    /\ pc[h] = "lock_check"
    /\ TryLock(hsess[h])
    /\ sess' = [sess EXCEPT ![hsess[h]].lock = h]
    /\ pc' = [pc EXCEPT ![h] = "check"]
    /\ UNCHANGED <<sessions, rwlock, nextSid, hkey, hsess, rpc, expired, nextSweep, now, ioVars, inVars, offConsole>>

\* if !s.in_use && !s.to_pty_tx.is_closed() { in_use = true; disconnected_at =
\* None; drop(s); handle_existing_session } else fall through to a new session.
CheckReuse(h) ==
    /\ pc[h] = "check"
    /\ IF Reusable(hsess[h])
       THEN /\ sess' = MarkInUse(hsess[h])
            /\ pc' = [pc EXCEPT ![h] = "existing_lock"]
            /\ UNCHANGED hsess
       ELSE /\ sess' = [sess EXCEPT ![hsess[h]].lock = Free]
            /\ pc' = [pc EXCEPT ![h] = "spawn"]
            /\ hsess' = [hsess EXCEPT ![h] = NoSession]
    /\ UNCHANGED <<sessions, rwlock, nextSid, hkey, rpc, expired, nextSweep, now, ioVars, inVars, offConsole>>

\* handle_existing_session: let s = session.lock().await
ExistingLock(h) ==
    /\ pc[h] = "existing_lock"
    /\ TryLock(hsess[h])
    /\ sess' = [sess EXCEPT ![hsess[h]].lock = h]
    /\ pc' = [pc EXCEPT ![h] = "existing_chan"]
    /\ UNCHANGED <<sessions, rwlock, nextSid, hkey, hsess, rpc, expired, nextSweep, now, ioVars, inVars, offConsole>>

\* (s.to_pty_tx.clone(), s.from_pty_rx.clone()), release, spawn the output pump.
ExistingChannels(h) ==
    /\ pc[h] = "existing_chan"
    /\ sess' = [sess EXCEPT ![hsess[h]].lock = Free]
    /\ pc' = [pc EXCEPT ![h] = "attached"]
    /\ UNCHANGED <<sessions, rwlock, nextSid, hkey, hsess, rpc, expired, nextSweep, now, ioVars, inVars, offConsole>>

\* handle_new_session up to the PooledSession: the PTY is opened, the child
\* spawned, the writer and reader tasks started.
SpawnSession(h) ==
    /\ pc[h] = "spawn"
    /\ nextSid <= MaxSessions
    /\ sess' = [sess EXCEPT ![nextSid] = NewSession(hkey[h])]
    /\ hsess' = [hsess EXCEPT ![h] = nextSid]
    /\ nextSid' = nextSid + 1
    /\ pc' = [pc EXCEPT ![h] = "insert_wlock"]
    /\ UNCHANGED <<sessions, rwlock, hkey, rpc, expired, nextSweep, now, ioVars, inVars, offConsole>>

\* handle_new_session's early returns: no SSH key, openpty or spawn failed
\* (no child), or the reader / writer could not be taken (the child is killed
\* at once); the socket is closed and no PooledSession is created.
SpawnFail(h) ==
    /\ pc[h] = "spawn"
    /\ pc' = [pc EXCEPT ![h] = "idle"]
    /\ hkey' = [hkey EXCEPT ![h] = ""]
    /\ UNCHANGED <<sessions, rwlock, sess, nextSid, hsess, rpc, expired, nextSweep, now, ioVars, inVars, offConsole>>

\* let mut sessions = state.console_pool.sessions.write().await
InsertWriteLock(h) ==
    /\ pc[h] = "insert_wlock"
    /\ rwlock = Free
    /\ rwlock' = h
    /\ pc' = [pc EXCEPT ![h] = "insert_check"]
    /\ UNCHANGED <<sessions, sess, nextSid, hkey, hsess, rpc, expired, nextSweep, now, ioVars, inVars, offConsole>>

\* old_session.try_lock().map(|s| s.in_use).unwrap_or(false)
ExistingInUse(k) ==
    /\ sessions[k] # NoSession
    /\ TryLock(sessions[k])
    /\ sess[sessions[k]].in_use

\* if existing_in_use { drop(sessions); kill the child just created;
\* socket.close(); return }
InsertCheck(h) ==
    /\ pc[h] = "insert_check"
    /\ IF ExistingInUse(hkey[h])
       THEN /\ rwlock' = Free
            /\ sess' = KillChild(sess, hsess[h])
            /\ hsess' = [hsess EXCEPT ![h] = NoSession]
            /\ hkey' = [hkey EXCEPT ![h] = ""]
            /\ pc' = [pc EXCEPT ![h] = "idle"]
       ELSE /\ pc' = [pc EXCEPT ![h] = "insert_replace"]
            /\ UNCHANGED <<rwlock, sess, hsess, hkey>>
    /\ UNCHANGED <<sessions, nextSid, rpc, expired, nextSweep, now, ioVars, inVars, offConsole>>

\* if let Some(old) = sessions.remove(&key) { if let Ok(s) = old.try_lock()
\* { take and kill } }; sessions.insert(key, session); release the write lock.
InsertReplace(h) ==
    /\ pc[h] = "insert_replace"
    /\ LET old == sessions[hkey[h]] IN
       sess' = IF old # NoSession /\ TryLock(old) THEN KillChild(sess, old) ELSE sess
    /\ sessions' = [sessions EXCEPT ![hkey[h]] = hsess[h]]
    /\ rwlock' = Free
    /\ pc' = [pc EXCEPT ![h] = "attached"]
    /\ UNCHANGED <<nextSid, hkey, hsess, rpc, expired, nextSweep, now, ioVars, inVars, offConsole>>

\* send_task.abort(): the output pump stops at the await it is suspended at.
\* A frame it was sending (ws_sender.send(..).await) has either been written
\* to the socket by then or is dropped with the task.
AbortPump(h, written) ==
    /\ inflight' = [inflight EXCEPT ![h] = NoChunk]
    /\ delivered' = IF inflight[h] # NoChunk /\ written
                    THEN [delivered EXCEPT ![hsess[h]] = Append(@, inflight[h])]
                    ELSE delivered

\* The WS -> PTY loop ends (close frame, error, end of stream); send_task.abort().
Disconnect(h) ==
    /\ pc[h] = "attached"
    /\ pc' = [pc EXCEPT ![h] = "detach_lock"]
    /\ \E written \in (IF inflight[h] = NoChunk THEN {FALSE} ELSE BOOLEAN) : AbortPump(h, written)
    /\ UNCHANGED <<sessions, rwlock, sess, nextSid, hkey, hsess, rpc, expired, nextSweep, now,
                   produced, from_pty, inVars, offConsole>>

\* let mut s = session.lock().await
DetachLock(h) ==
    /\ pc[h] = "detach_lock"
    /\ TryLock(hsess[h])
    /\ sess' = [sess EXCEPT ![hsess[h]].lock = h]
    /\ pc' = [pc EXCEPT ![h] = "detach_set"]
    /\ UNCHANGED <<sessions, rwlock, nextSid, hkey, hsess, rpc, expired, nextSweep, now, ioVars, inVars, offConsole>>

\* s.in_use = false; s.disconnected_at = Some(Instant::now()); the handler returns.
DetachSet(h) ==
    /\ pc[h] = "detach_set"
    /\ sess' = MarkIdle(hsess[h])
    /\ pc' = [pc EXCEPT ![h] = "idle"]
    /\ hsess' = [hsess EXCEPT ![h] = NoSession]
    /\ hkey' = [hkey EXCEPT ![h] = ""]
    /\ UNCHANGED <<sessions, rwlock, nextSid, rpc, expired, nextSweep, now, ioVars, inVars, offConsole>>

\* ------------------------------------------------------------ cleanup task

\* sleep(CLEANUP_INTERVAL) ends; self.sessions.write().await; Instant::now()
ReaperWake ==
    /\ rpc = "sleep"
    /\ now = nextSweep
    /\ rwlock = Free
    /\ rwlock' = Reaper
    /\ rpc' = "filter"
    /\ UNCHANGED <<sessions, sess, nextSid, pc, hkey, hsess, expired, nextSweep, now, ioVars, inVars, offConsole>>

\* The filter_map of cleanup_expired_sessions for one entry.
IsExpired(k) ==
    /\ sessions[k] # NoSession
    /\ TryLock(sessions[k])
    /\ ~sess[sessions[k]].in_use
    /\ sess[sessions[k]].disconnected_at # None
    /\ now - sess[sessions[k]].disconnected_at > SESSION_POOL_TIMEOUT

\* let expired: Vec<String> = sessions.iter().filter_map(..).collect()
ReaperFilter ==
    /\ rpc = "filter"
    /\ expired' = {k \in Keys : IsExpired(k)}
    /\ rpc' = "remove"
    /\ UNCHANGED <<sessions, rwlock, sess, nextSid, pc, hkey, hsess, nextSweep, now, ioVars, inVars, offConsole>>

\* Mutant of ReapKey: the entry is looked up instead of removed and the child
\* is killed through the handle instead of being taken out of it.
ReapKeyKeepEntry(k) ==
    /\ sess' = IF TryLock(sessions[k])
               THEN [sess EXCEPT ![sessions[k]].kills = @ + 1, ![sessions[k]].exited = TRUE]
               ELSE sess
    /\ sessions' = sessions

\* for key in expired: sessions.remove(&key), then try_lock, take and kill.
ReapKey(k) ==
    /\ sess' = IF TryLock(sessions[k]) THEN KillChild(sess, sessions[k]) ELSE sess
    /\ sessions' = [sessions EXCEPT ![k] = NoSession]

ReaperRemove(k) ==
    /\ rpc = "remove"
    /\ k \in expired
    /\ ReapKey(k)
    /\ expired' = expired \ {k}
    /\ UNCHANGED <<rwlock, nextSid, pc, hkey, hsess, rpc, nextSweep, now, ioVars, inVars, offConsole>>

\* The sweep returns (the write lock is released) and the task sleeps again.
ReaperDone ==
    /\ rpc = "remove"
    /\ expired = {}
    /\ rwlock' = Free
    /\ rpc' = "sleep"
    /\ nextSweep' = now + CLEANUP_INTERVAL
    /\ UNCHANGED <<sessions, sess, nextSid, pc, hkey, hsess, expired, now, ioVars, inVars, offConsole>>

\* Time passes; a sweep that is due runs before the clock moves on.
Tick ==
    /\ rpc = "sleep"
    /\ now < nextSweep
    /\ now + TickLen <= MaxTime
    /\ now' = now + TickLen
    /\ UNCHANGED <<sessions, rwlock, sess, nextSid, pc, hkey, hsess, rpc, expired, nextSweep, ioVars, inVars, offConsole>>

\* ------------------------------------------------------- child and its tasks

\* The child exits on its own: the reader task reads EOF (Ok(0)) and ends,
\* which drops from_pty_tx and closes the output channel.
ChildExit(s) ==
    /\ Created(s)
    /\ ~sess[s].exited
    /\ sess' = [sess EXCEPT ![s].exited = TRUE]
    /\ UNCHANGED <<sessions, rwlock, nextSid, pc, hkey, hsess, rpc, expired, nextSweep, now, ioVars, inVars, offConsole>>

\* The reader task: reader.read(&mut buf) returned n > 0 bytes;
\* from_pty_tx.send(chunk).  Chunks are numbered in the order they are read.
ReaderRead(s) ==
    /\ Created(s)
    /\ ~sess[s].exited
    /\ produced[s] < MaxChunks
    /\ produced' = [produced EXCEPT ![s] = @ + 1]
    /\ from_pty' = [from_pty EXCEPT ![s] = Append(@, produced[s] + 1)]
    /\ UNCHANGED <<poolVars, inflight, delivered, inVars, offConsole>>

\* Mutant of PumpRecv: the chunk is read but left in the channel.
PumpRecvPeek(h) ==
    /\ pc[h] = "attached"
    /\ inflight[h] = NoChunk
    /\ from_pty[hsess[h]] # <<>>
    /\ inflight' = [inflight EXCEPT ![h] = Head(from_pty[hsess[h]])]
    /\ UNCHANGED <<poolVars, produced, from_pty, delivered, inVars, offConsole>>

\* The output pump of an attached handler: from_pty_rx.lock().await;
\* rx.recv().await returned Some(data).
PumpRecv(h) ==
    /\ pc[h] = "attached"
    /\ inflight[h] = NoChunk
    /\ from_pty[hsess[h]] # <<>>
    /\ inflight' = [inflight EXCEPT ![h] = Head(from_pty[hsess[h]])]
    /\ from_pty' = [from_pty EXCEPT ![hsess[h]] = Tail(@)]
    /\ UNCHANGED <<poolVars, produced, delivered, inVars, offConsole>>

\* ws_sender.send(Message::Text(data)).await completed.
PumpSend(h) ==
    /\ pc[h] = "attached"
    /\ inflight[h] # NoChunk
    /\ delivered' = [delivered EXCEPT ![hsess[h]] = Append(@, inflight[h])]
    /\ inflight' = [inflight EXCEPT ![h] = NoChunk]
    /\ UNCHANGED <<poolVars, produced, from_pty, inVars, offConsole>>

\* enum ClientMsg { Input { d }, Resize { c, r } }; a text frame that does not
\* parse as one ("junk") and a binary frame are skipped by the WS -> PTY loop.
FrameKinds == {"Input", "Resize", "junk"}

\* The WS -> PTY loop of an attached handler: ws_receiver.next().await returned
\* a text frame; if it parses, to_pty_tx.send(parsed).  Frames are numbered in
\* the order the sockets receive them.
WsRecv(h, kind) ==
    /\ pc[h] = "attached"
    /\ sent < MaxFrames
    /\ sent' = sent + 1
    /\ to_pty' = IF kind = "junk"
                 THEN to_pty
                 ELSE [to_pty EXCEPT ![hsess[h]] = Append(@, <<h, sent + 1, kind>>)]
    /\ UNCHANGED <<poolVars, ioVars, applied, offConsole>>

\* Mutant of WriterApply: the writer takes the newest message of the channel.
WriterApplyNewest(s) ==
    /\ Created(s)
    /\ to_pty[s] # <<>>
    /\ applied' = [applied EXCEPT ![s] = Append(@, to_pty[s][Len(to_pty[s])])]
    /\ to_pty' = [to_pty EXCEPT ![s] = SubSeq(@, 1, Len(@) - 1)]
    /\ UNCHANGED <<poolVars, ioVars, sent, offConsole>>

\* The writer task: to_pty_rx.blocking_recv() returned Some(msg); Input is
\* written to the PTY and flushed, Resize resizes it; errors are ignored.
WriterApply(s) ==
    /\ Created(s)
    /\ to_pty[s] # <<>>
    /\ applied' = [applied EXCEPT ![s] = Append(@, Head(to_pty[s]))]
    /\ to_pty' = [to_pty EXCEPT ![s] = Tail(@)]
    /\ UNCHANGED <<poolVars, ioVars, sent, offConsole>>

\* --------------------------------------------------------- workspace store

Clients == 1..NumClients

\* DEFAULT_WORKSPACE_ID = Uuid::nil(); the other ids are what new_v4 returns.
DEFAULT_WORKSPACE_ID == 0
WsIds == 0..MaxWs

\* A workspace file or map may hold one workspace that this run did not
\* create; the ids new_v4 returns in this run start after it.
OldId == 1
FirstNewId == 2

\* <working_dir>/.openagent/containers/<name>, .../chroots/<name>, in the order
\* scan_orphaned_containers visits its two roots.
DirSeq == <<"containers/a", "chroots/a">>
Dirs == {DirSeq[i] : i \in 1..Len(DirSeq)}

\* What a directory holds: nothing there; a directory without etc and bin;
\* a root file system (bin, usr, etc, var).
DirStates == {"none", "bare", "rootfs"}

WorkspaceStatus == {"pending", "building", "ready", "error"}

Absent == [type |-> "none", status |-> "none", path |-> ""]

NoWorkspaces == [i \in WsIds |-> Absent]

\* Workspace::default_host(working_dir)
default_host == [type |-> "host", status |-> "ready", path |-> "wd"]

\* Workspace::new_chroot(name, path)
new_chroot(path) == [type |-> "chroot", status |-> "pending", path |-> path]

NoCall == [op |-> "none", id |-> DEFAULT_WORKSPACE_ID, ret |-> FALSE]

\* The contents workspaces.json can have when the program starts: no file, a
\* file that does not parse, or an array of workspaces (with or without an
\* entry for the nil id, in any status, and at most one container workspace).
OldFiles ==
    {[state |-> "absent", data |-> NoWorkspaces],
     [state |-> "garbage", data |-> NoWorkspaces]}
    \cup
    {[state |-> "full",
      data |-> [i \in WsIds |->
                  IF i = DEFAULT_WORKSPACE_ID THEN host
                  ELSE IF i = OldId THEN old
                  ELSE Absent]] :
        host \in {Absent, default_host, [default_host EXCEPT !.status = "error"]},
        old \in {Absent} \cup {[new_chroot("chroots/a") EXCEPT !.status = s] :
                                  s \in WorkspaceStatus}}

\* The store before the program starts: nothing constructed, no request.
StoreDown ==
    /\ up = FALSE
    /\ workspaces = NoWorkspaces
    /\ readers = {}
    /\ nextId = FirstNewId
    /\ boots = 0
    /\ cpc = [c \in Clients |-> "idle"]
    /\ cws = [c \in Clients |-> Absent]
    /\ call = [c \in Clients |-> NoCall]

\* The workspace store is not used: no file, no directories.
StoreRest ==
    /\ StoreDown
    /\ disk = [state |-> "absent", data |-> NoWorkspaces]
    /\ dirs = [d \in Dirs |-> "none"]

\* The program starts for the first time, or over a workspaces.json whose
\* entry for the nil id is in another status than ready; no container
\* directory exists yet.
StoreFirstBoot ==
    /\ StoreDown
    /\ disk \in {f \in OldFiles :
                    /\ f.state \in {"absent", "full"}
                    /\ f.data[OldId] = Absent
                    /\ f.data[DEFAULT_WORKSPACE_ID] # default_host}
    /\ dirs = [d \in Dirs |-> "none"]

\* The program starts over any workspaces.json and any container directories.
StoreBoot ==
    /\ StoreDown
    /\ disk \in OldFiles
    /\ dirs \in [Dirs -> DirStates]

\* load_from_disk: no file is an empty map; a file that does not parse is an
\* error, which new() turns into an empty map.
load_from_disk ==
    IF disk.state = "full" THEN disk.data ELSE NoWorkspaces

\* known_paths of scan_orphaned_containers: the paths of the container workspaces.
known_paths(known) ==
    {known[i].path : i \in {j \in WsIds : known[j].type = "chroot"}}

\* Mutant of scan_orphaned_containers: known paths are not skipped.
scan_all_containers(known) ==
    SelectSeq(DirSeq, LAMBDA d : dirs[d] # "none")

\* scan_orphaned_containers: the directories that exist and are not known.
scan_orphaned_containers(known) ==
    SelectSeq(DirSeq, LAMBDA d : dirs[d] # "none" /\ d \notin known_paths(known))

\* The workspace scan_orphaned_containers builds for directory d: ready iff
\* etc or bin exists, else pending.
orphan(d) ==
    [type |-> "chroot",
     status |-> IF dirs[d] = "rootfs" THEN "ready" ELSE "pending",
     path |-> d]

\* new(), up to the map it stores: load, default host workspace, orphans.
NewMap ==
    LET loaded == load_from_disk
        hosted == IF loaded[DEFAULT_WORKSPACE_ID] = Absent
                  THEN [loaded EXCEPT ![DEFAULT_WORKSPACE_ID] = default_host]
                  ELSE loaded
        orphaned == scan_orphaned_containers(hosted)
    IN  [i \in WsIds |->
            IF i >= nextId /\ i < nextId + Len(orphaned)
            THEN orphan(orphaned[i - nextId + 1])
            ELSE hosted[i]]

\* save_to_disk writes the map as it is while the read guard is held.
Saved(m) == [state |-> "full", data |-> m]

\* WorkspaceStore::new: the program starts; the map is stored and saved.
New ==
    /\ ~up
    /\ boots < MaxBoots
    /\ LET n == Len(scan_orphaned_containers(
                      IF load_from_disk[DEFAULT_WORKSPACE_ID] = Absent
                      THEN [load_from_disk EXCEPT ![DEFAULT_WORKSPACE_ID] = default_host]
                      ELSE load_from_disk))
       IN /\ nextId + n <= MaxWs + 1
          /\ nextId' = nextId + n
    /\ workspaces' = NewMap
    /\ disk' = Saved(NewMap)
    /\ up' = TRUE
    /\ boots' = boots + 1
    /\ UNCHANGED <<readers, dirs, cpc, cws, call, offStore>>

\* The process ends (shutdown or crash) at any point: the map, the locks and
\* the requests are gone, the file and the directories stay as they are.
Crash ==
    /\ up
    /\ boots < MaxBoots
    /\ up' = FALSE
    /\ workspaces' = NoWorkspaces
    /\ readers' = {}
    /\ cpc' = [c \in Clients |-> "idle"]
    /\ cws' = [c \in Clients |-> Absent]
    /\ call' = [c \in Clients |-> NoCall]
    /\ UNCHANGED <<disk, dirs, nextId, boots, offStore>>

\* self.workspaces.write().await is granted: no read guard is held (a write
\* guard is never held across a step).
WriteLock == readers = {}

\* create_workspace, then WorkspaceStore::add: guard.insert(id, workspace).
\* A host workspace is ready at the working directory; a container workspace
\* is pending at .openagent/chroots/<name>.
Add(c, type) ==
    /\ up
    /\ cpc[c] = "idle"
    /\ nextId <= MaxWs
    /\ WriteLock
    /\ workspaces' = [workspaces EXCEPT ![nextId] =
                         IF type = "host" THEN default_host ELSE new_chroot("chroots/a")]
    /\ nextId' = nextId + 1
    /\ call' = [call EXCEPT ![c] = [op |-> "add", id |-> nextId, ret |-> TRUE]]
    /\ cpc' = [cpc EXCEPT ![c] = "save"]
    /\ UNCHANGED <<up, readers, disk, dirs, boots, cws, offStore>>

\* Mutant of Delete: the nil id is not refused.
DeleteAny(c, id) ==
    /\ up
    /\ cpc[c] = "idle"
    /\ WriteLock
    /\ workspaces' = [workspaces EXCEPT ![id] = Absent]
    /\ call' = [call EXCEPT ![c] =
                   [op |-> "delete", id |-> id, ret |-> workspaces[id] # Absent]]
    /\ cpc' = [cpc EXCEPT ![c] = IF workspaces[id] # Absent THEN "save" ELSE "returned"]
    /\ UNCHANGED <<up, readers, disk, dirs, nextId, boots, cws, offStore>>

\* Mutant of Delete: the map is not saved after the removal.
DeleteUnsaved(c, id) ==
    /\ up
    /\ cpc[c] = "idle"
    /\ id # DEFAULT_WORKSPACE_ID
    /\ WriteLock
    /\ workspaces' = [workspaces EXCEPT ![id] = Absent]
    /\ call' = [call EXCEPT ![c] =
                   [op |-> "delete", id |-> id, ret |-> workspaces[id] # Absent]]
    /\ cpc' = [cpc EXCEPT ![c] = "returned"]
    /\ UNCHANGED <<up, readers, disk, dirs, nextId, boots, cws, offStore>>

\* WorkspaceStore::delete: false for the nil id; else guard.remove(&id), and
\* save_to_disk if the entry existed.
Delete(c, id) ==
    /\ up
    /\ cpc[c] = "idle"
    /\ IF id = DEFAULT_WORKSPACE_ID
       THEN /\ call' = [call EXCEPT ![c] = [op |-> "delete", id |-> id, ret |-> FALSE]]
            /\ cpc' = [cpc EXCEPT ![c] = "returned"]
            /\ UNCHANGED workspaces
       ELSE /\ WriteLock
            /\ workspaces' = [workspaces EXCEPT ![id] = Absent]
            /\ call' = [call EXCEPT ![c] =
                           [op |-> "delete", id |-> id, ret |-> workspaces[id] # Absent]]
            /\ cpc' = [cpc EXCEPT ![c] = IF workspaces[id] # Absent THEN "save" ELSE "returned"]
    /\ UNCHANGED <<up, readers, disk, dirs, nextId, boots, cws, offStore>>

\* save_to_disk: self.workspaces.read().await; std::fs::write opens the file
\* with truncation.
SaveOpen(c) ==
    /\ cpc[c] = "save"
    /\ readers' = readers \cup {c}
    /\ disk' = [state |-> "partial", data |-> NoWorkspaces]
    /\ cpc' = [cpc EXCEPT ![c] = "writing"]
    /\ UNCHANGED <<up, workspaces, dirs, nextId, boots, cws, call, offStore>>

\* save_to_disk: std::fs::write has written the serialized map and the read
\* guard drops.  While another save is between its truncation and the end of
\* its write, the file may or may not hold the whole array yet.
SaveWrite(c) ==
    /\ cpc[c] = "writing"
    /\ \E whole \in (IF \E c2 \in Clients \ {c} : cpc[c2] = "writing"
                     THEN BOOLEAN ELSE {TRUE}) :
          disk' = IF whole THEN Saved(workspaces)
                  ELSE [state |-> "partial", data |-> NoWorkspaces]
    /\ readers' = readers \ {c}
    /\ cpc' = [cpc EXCEPT ![c] = "returned"]
    /\ UNCHANGED <<up, workspaces, dirs, nextId, boots, cws, call, offStore>>

\* The operation has returned to its caller and the request ends.
Return(c) ==
    /\ cpc[c] = "returned"
    /\ cpc' = [cpc EXCEPT ![c] = "idle"]
    /\ call' = [call EXCEPT ![c] = NoCall]
    /\ UNCHANGED <<up, workspaces, readers, disk, dirs, nextId, boots, cws, offStore>>

\* A build request: WorkspaceStore::get(id) hands the caller its own copy of
\* the workspace, which it passes to build_chroot_workspace.
BuildGet(c, id) ==
    /\ up
    /\ cpc[c] = "idle"
    /\ workspaces[id] # Absent
    /\ cws' = [cws EXCEPT ![c] = workspaces[id]]
    /\ call' = [call EXCEPT ![c] = [op |-> "get", id |-> id, ret |-> TRUE]]
    /\ cpc' = [cpc EXCEPT ![c] = "build"]
    /\ UNCHANGED <<up, workspaces, readers, disk, dirs, nextId, boots, offStore>>

\* build_chroot_workspace: Err for a workspace that is not a container; else
\* workspace.status = Building.
BuildStart(c) ==
    /\ cpc[c] = "build"
    /\ IF cws[c].type # "chroot"
       THEN /\ cws' = [cws EXCEPT ![c] = Absent]
            /\ cpc' = [cpc EXCEPT ![c] = "returned"]
       ELSE /\ cws' = [cws EXCEPT ![c].status = "building"]
            /\ cpc' = [cpc EXCEPT ![c] = "build_probe"]
    /\ UNCHANGED <<up, workspaces, readers, disk, dirs, nextId, boots, call, offStore>>

\* nspawn::is_container_ready(path): bin, usr, etc and var exist.
is_container_ready(path) == dirs[path] = "rootfs"

\* build_chroot_workspace: a container that is ready with the requested
\* distro is kept (status Ready, Ok); one with another or no distro is
\* destroyed first, and a failure of destroy_container returns Err at the `?`.
BuildProbe(c, same, destroyed) ==
    /\ cpc[c] = "build_probe"
    /\ IF is_container_ready(cws[c].path)
       THEN IF same
            THEN /\ cws' = [cws EXCEPT ![c].status = "ready"]
                 /\ cpc' = [cpc EXCEPT ![c] = "built"]
                 /\ UNCHANGED dirs
            ELSE IF destroyed
            THEN /\ dirs' = [dirs EXCEPT ![cws[c].path] = "none"]
                 /\ cpc' = [cpc EXCEPT ![c] = "build_create"]
                 /\ UNCHANGED cws
            ELSE /\ cpc' = [cpc EXCEPT ![c] = "built"]
                 /\ UNCHANGED <<cws, dirs>>
       ELSE /\ cpc' = [cpc EXCEPT ![c] = "build_create"]
            /\ UNCHANGED <<cws, dirs>>
    /\ UNCHANGED <<up, workspaces, readers, disk, nextId, boots, call, offStore>>

\* build_chroot_workspace: nspawn::create_container(path, distro) returned Ok
\* (status Ready) or Err (status Error, with the message).
BuildCreate(c, ok) ==
    /\ cpc[c] = "build_create"
    /\ cws' = [cws EXCEPT ![c].status = IF ok THEN "ready" ELSE "error"]
    /\ dirs' = [dirs EXCEPT ![cws[c].path] = IF ok THEN "rootfs" ELSE "bare"]
    /\ cpc' = [cpc EXCEPT ![c] = "built"]
    /\ UNCHANGED <<up, workspaces, readers, disk, nextId, boots, call, offStore>>

\* WorkspaceStore::update with the workspace that was built: the entry is
\* replaced if the id is still there, and then the map is saved.
Update(c) ==
    /\ cpc[c] = "built"
    /\ WriteLock
    /\ LET id == call[c].id
           updated == workspaces[id] # Absent
       IN /\ workspaces' = IF updated THEN [workspaces EXCEPT ![id] = cws[c]] ELSE workspaces
          /\ call' = [call EXCEPT ![c] = [op |-> "update", id |-> id, ret |-> updated]]
          /\ cpc' = [cpc EXCEPT ![c] = IF updated THEN "save" ELSE "returned"]
    /\ cws' = [cws EXCEPT ![c] = Absent]
    /\ UNCHANGED <<up, readers, disk, dirs, nextId, boots, offStore>>

\* ------------------------------------------------------------ chunked upload

\* A file that does not exist.
NoFile == <<-1>>

\* What a client sends as one chunk.
Payloads == {<<1>>, <<2, 1>>}

ChunkIndexes == 0..(MaxParts - 1)

\* The upload is not used: no chunk directory, no file, no request.
UploadRest ==
    /\ chunk_dir = [exists |-> FALSE, entries |-> <<>>]
    /\ assembled = NoFile
    /\ dest = NoFile
    /\ fpc = "idle"
    /\ fN = 0
    /\ fi = 0
    /\ fret = "none"
    /\ racing = FALSE

\* The position of chunk_{i:06} in the chunk directory, 0 if it is not there.
EntryOf(i) ==
    LET at == {n \in 1..Len(chunk_dir.entries) : chunk_dir.entries[n].idx = i}
    IN  IF at = {} THEN 0 ELSE CHOOSE n \in at : TRUE

\* upload_chunk for upload id "u1": create_dir_all(chunk_dir); File::create of
\* chunk_{chunk_index:06} (a new entry of the directory, or the old one
\* truncated); the field's bytes written and flushed.
UploadChunk(i, data) ==
    /\ chunk_dir' =
          [exists |-> TRUE,
           entries |-> IF EntryOf(i) = 0
                       THEN Append(chunk_dir.entries, [idx |-> i, data |-> data])
                       ELSE [chunk_dir.entries EXCEPT ![EntryOf(i)].data = data]]
    /\ racing' = (racing \/ fpc \in {"assemble", "move"})
    /\ UNCHANGED <<assembled, dest, fpc, fN, fi, fret, offUpload>>

\* upload_finalize for upload id "u1" with total_chunks = n: the key and the
\* ids are good; File::create(assembled_path).
FinalizeStart(n) ==
    /\ fpc = "idle"
    /\ fpc' = "assemble"
    /\ fN' = n
    /\ fi' = 0
    /\ fret' = "none"
    /\ racing' = FALSE
    /\ assembled' = <<>>
    /\ UNCHANGED <<chunk_dir, dest, offUpload>>

\* upload_finalize gives up before it assembles: get_key_and_cfg fails, or
\* the assembled file cannot be created.
FinalizeRefuse ==
    /\ fpc = "idle"
    /\ fpc' = "returned"
    /\ fret' = "err"
    /\ UNCHANGED <<chunk_dir, assembled, dest, fN, fi, racing, offUpload>>

\* Mutant of FinalizeRead: the chunks are taken in the order of the directory.
FinalizeReadListed ==
    /\ fpc = "assemble"
    /\ fi < fN
    /\ IF chunk_dir.exists /\ fi + 1 <= Len(chunk_dir.entries)
       THEN /\ assembled' = assembled \o chunk_dir.entries[fi + 1].data
            /\ fi' = fi + 1
            /\ UNCHANGED <<fpc, fret>>
       ELSE /\ fpc' = "returned"
            /\ fret' = "err"
            /\ UNCHANGED <<assembled, fi>>
    /\ UNCHANGED <<chunk_dir, dest, fN, racing, offUpload>>

\* for i in 0..total_chunks: tokio::fs::read(chunk_{i:06})? and
\* assembled.write_all(&chunk_data)?; a chunk that is not there is an Err.
FinalizeRead ==
    /\ fpc = "assemble"
    /\ fi < fN
    /\ IF chunk_dir.exists /\ EntryOf(fi) # 0
       THEN /\ assembled' = assembled \o chunk_dir.entries[EntryOf(fi)].data
            /\ fi' = fi + 1
            /\ UNCHANGED <<fpc, fret>>
       ELSE /\ fpc' = "returned"
            /\ fret' = "err"
            /\ UNCHANGED <<assembled, fi>>
    /\ UNCHANGED <<chunk_dir, dest, fN, racing, offUpload>>

\* assembled.flush(); drop(assembled)
FinalizeFlush ==
    /\ fpc = "assemble"
    /\ fi = fN
    /\ fpc' = "move"
    /\ UNCHANGED <<chunk_dir, assembled, dest, fN, fi, fret, racing, offUpload>>

\* The move to the destination: create_dir_all and rename or copy on
\* localhost, mkdir -p over ssh and an sftp put otherwise.  If a step fails
\* the function returns at its `?`; else the assembled file is moved or
\* removed, remove_dir_all(chunk_dir), Ok.
FinalizeMove(moved) ==
    /\ fpc = "move"
    /\ fpc' = "returned"
    /\ IF moved
       THEN /\ dest' = assembled
            /\ assembled' = NoFile
            /\ chunk_dir' = [exists |-> FALSE, entries |-> <<>>]
            /\ fret' = "ok"
       ELSE /\ fret' = "err"
            /\ UNCHANGED <<dest, assembled, chunk_dir>>
    /\ UNCHANGED <<fN, fi, racing, offUpload>>

\* The response is sent and the request ends.
FinalizeReturn ==
    /\ fpc = "returned"
    /\ fpc' = "idle"
    /\ fret' = "none"
    /\ fN' = 0
    /\ fi' = 0
    /\ racing' = FALSE
    /\ UNCHANGED <<chunk_dir, assembled, dest, offUpload>>

\* ------------------------------------------------ path-component sanitizer

\* The characters of the strings: '/', '\', '.', NUL, ' ' and a letter.
Chars == {"/", "\\", ".", "NUL", " ", "a"}

RECURSIVE StringsOf(_)
StringsOf(n) ==
    IF n = 0 THEN {<<>>}
    ELSE {<<>>} \cup {<<c>> \o s : c \in Chars, s \in StringsOf(n - 1)}

Strings == StringsOf(MaxStrLen)

NoString == <<"unset">>

\* The sanitizer has not been called.
SanRest ==
    /\ san_in = <<>>
    /\ san_out = NoString

\* s.rsplit(|c| c == '/' || c == '\\').next(): what follows the last separator.
RECURSIVE rsplit_first(_)
rsplit_first(s) ==
    IF s = <<>> THEN <<>>
    ELSE IF s[Len(s)] \in {"/", "\\"} THEN <<>>
    ELSE rsplit_first(SubSeq(s, 1, Len(s) - 1)) \o <<s[Len(s)]>>

\* str::replace("..", ""): the matches are found from the left and do not
\* overlap; the result is not searched again.
RECURSIVE replace_dotdot(_)
replace_dotdot(s) ==
    IF Len(s) < 2 THEN s
    ELSE IF s[1] = "." /\ s[2] = "." THEN replace_dotdot(SubSeq(s, 3, Len(s)))
    ELSE <<s[1]>> \o replace_dotdot(Tail(s))

\* str::replace('\0', "")
replace_nul(s) == SelectSeq(s, LAMBDA c : c # "NUL")

WhiteSpace == {" ", "\t", "\n"}

\* str::trim(): no white space at either end.
RECURSIVE trim(_)
trim(s) ==
    IF s = <<>> THEN s
    ELSE IF s[1] \in WhiteSpace THEN trim(Tail(s))
    ELSE IF s[Len(s)] \in WhiteSpace THEN trim(SubSeq(s, 1, Len(s) - 1))
    ELSE s

sanitize_path_component(s) ==
    trim(replace_nul(replace_dotdot(rsplit_first(s))))

\* A caller sanitizes the string it was given.
Sanitize ==
    /\ san_out = NoString
    /\ san_out' = sanitize_path_component(san_in)
    /\ UNCHANGED <<san_in, offSan>>

\* ---------------------------------------------------------------- SSRF guard

\* The kinds of address std::net tells apart.  IPv4: 127.0.0.0/8, the private
\* ranges, 169.254.0.0/16 (169.254.169.254 apart), 255.255.255.255, the
\* documentation ranges, 0.0.0.0, and every other address.  IPv6: ::1, ::,
\* fc00::/7, fe80::/10, ::ffff:a.b.c.d, and every other address.
IPv4Kinds ==
    {"loopback", "private", "link_local", "metadata", "broadcast",
     "documentation", "unspecified", "public"}
IPv6Kinds == {"loopback", "unspecified", "unique_local", "link_local", "public"}

V4(k) == [fam |-> 4, kind |-> k, mapped |-> "none"]
V6(k) == [fam |-> 6, kind |-> k, mapped |-> "none"]
\* ::ffff:a.b.c.d
V4Mapped(k) == [fam |-> 6, kind |-> "v4_mapped", mapped |-> k]

IpAddrs ==
    {V4(k) : k \in IPv4Kinds} \cup {V6(k) : k \in IPv6Kinds}
    \cup {V4Mapped(k) : k \in IPv4Kinds}

NoIp == [fam |-> 0, kind |-> "none", mapped |-> "none"]

\* is_internal_ip: is_loopback, is_private, is_link_local, is_broadcast,
\* is_documentation, 169.254.169.254, is_unspecified for IPv4; is_loopback,
\* is_unspecified, to_ipv4_mapped (then the IPv4 test), fc00::/7, fe80::/10
\* for IPv6.
is_internal_ip(ip) ==
    IF ip.fam = 4
    THEN ip.kind \in {"loopback", "private", "link_local", "broadcast",
                      "documentation", "metadata", "unspecified"}
    ELSE \/ ip.kind \in {"loopback", "unspecified"}
         \/ /\ ip.kind = "v4_mapped"
            /\ V4(ip.mapped).kind \in {"loopback", "private", "link_local", "broadcast",
                                       "documentation", "metadata", "unspecified"}
         \/ ip.kind = "unique_local"
         \/ ip.kind = "link_local"

\* What the DNS can answer for a name: no answer (the lookup fails), or up to
\* MaxAddrs addresses.
Answers == {a \in SUBSET IpAddrs : Cardinality(a) <= MaxAddrs}

\* The hosts of a parsed URL (url::Host): an IPv4 address, an IPv6 address, or
\* a domain with what the DNS answers for it.
Hosts ==
    {[is |-> "ipv4", ip |-> a, name |-> "", dns |-> {}] : a \in {V4(k) : k \in IPv4Kinds}}
    \cup
    {[is |-> "ipv6", ip |-> a, name |-> "", dns |-> {}] : a \in IpAddrs \ {V4(k) : k \in IPv4Kinds}}
    \cup
    {[is |-> "domain", ip |-> NoIp, name |-> n, dns |-> {}] : n \in {"localhost", "a.localhost"}}
    \cup
    {[is |-> "domain", ip |-> NoIp, name |-> "example.com", dns |-> a] : a \in Answers}

Urls == [scheme : {"http", "https", "ftp"}, host : Hosts]

NoUrl == [scheme |-> "", host |-> [is |-> "none", ip |-> NoIp, name |-> "", dns |-> {}]]

\* Url::host_str: the host as it is written in the URL.  An IPv4 address is
\* in dotted form, an IPv6 address is between brackets.
host_str(host) ==
    CASE host.is = "ipv4" -> [form |-> "dotted", ip |-> host.ip, name |-> "", dns |-> {}]
      [] host.is = "ipv6" -> [form |-> "bracketed", ip |-> host.ip, name |-> "", dns |-> {}]
      [] OTHER -> [form |-> "name", ip |-> NoIp, name |-> host.name, dns |-> host.dns]

\* str::parse::<IpAddr>: dotted IPv4 and colon-separated IPv6 text parse;
\* text with brackets, or a name, does not.
parse_IpAddr(text) ==
    IF text.form \in {"dotted", "colons"} THEN text.ip ELSE NoIp

\* (host, 80).to_socket_addrs(): the address itself if the text parses as one;
\* otherwise the DNS lookup of the text, which has no answer for text that is
\* not a host name.  The empty set stands for Err.
to_socket_addrs(text) ==
    IF parse_IpAddr(text) # NoIp THEN {parse_IpAddr(text)}
    ELSE IF text.form = "name" THEN text.dns
    ELSE {}

\* validate_url_for_ssrf.  An http or https URL always has a host.
validate_url_for_ssrf(url) ==
    LET host == host_str(url.host)
    IN  IF url.scheme \notin {"http", "https"} THEN "Disallowed URL scheme"
        ELSE IF \/ host.form = "name" /\ host.name \in {"localhost", "a.localhost"}
                \/ host.form = "dotted" /\ host.ip = V4("unspecified")
        THEN "Requests to localhost are not allowed"
        ELSE IF parse_IpAddr(host) # NoIp /\ is_internal_ip(parse_IpAddr(host))
        THEN "Requests to internal IP addresses are not allowed"
        ELSE IF \E addr \in to_socket_addrs(host) : is_internal_ip(addr)
        THEN "URL resolves to internal IP address"
        ELSE "Ok"

\* The guard has not been called.
SsrfRest ==
    /\ ssrf_url = NoUrl
    /\ ssrf_ret = "none"

\* A caller validates the URL it was given.
ValidateUrl ==
    /\ ssrf_ret = "none"
    /\ ssrf_ret' = validate_url_for_ssrf(ssrf_url)
    /\ UNCHANGED <<ssrf_url, offSsrf>>

\* ------------------------------------------------------------- download-url

\* reqwest::redirect::Policy::limited(5)
REDIRECT_LIMIT == 5

\* The URLs of a download and of its redirects: a public site, an address of
\* a private network, and the IPv6 loopback address.
PublicUrl ==
    [scheme |-> "https",
     host |-> [is |-> "domain", ip |-> NoIp, name |-> "example.com", dns |-> {V4("public")}]]
PrivateUrl ==
    [scheme |-> "http", host |-> [is |-> "ipv4", ip |-> V4("private"), name |-> "", dns |-> {}]]
LoopbackUrl ==
    [scheme |-> "http", host |-> [is |-> "ipv6", ip |-> V6("loopback"), name |-> "", dns |-> {}]]
DlUrls == {PublicUrl, PrivateUrl, LoopbackUrl}

RECURSIVE ChainsOf(_)
ChainsOf(n) ==
    IF n = 0 THEN {<<>>}
    ELSE {<<>>} \cup {<<u>> \o c : u \in DlUrls, c \in ChainsOf(n - 1)}

\* No download has been requested.
DlRest ==
    /\ dl_url = NoUrl
    /\ dl_hops = <<>>
    /\ dl_pc = "idle"
    /\ dl_sent = <<>>
    /\ dl_final = NoUrl
    /\ dl_status = 0
    /\ dl_dest = NoUrl

\* A download of any of the URLs, answered with any chain of redirects.
DlStart ==
    /\ dl_url \in DlUrls
    /\ dl_hops \in ChainsOf(MaxHops)
    /\ dl_pc = "validate"
    /\ dl_sent = <<>>
    /\ dl_final = NoUrl
    /\ dl_status = 0
    /\ dl_dest = NoUrl

\* validate_url_for_ssrf(&req.url).map_err(|e| (BAD_REQUEST, e))?
DlValidate ==
    /\ dl_pc = "validate"
    /\ IF validate_url_for_ssrf(dl_url) = "Ok"
       THEN /\ dl_pc' = "send"
            /\ UNCHANGED dl_status
       ELSE /\ dl_pc' = "done"
            /\ dl_status' = 400
    /\ UNCHANGED <<dl_url, dl_hops, dl_sent, dl_final, dl_dest, offDl>>

\* client.get(&req.url).send().await: the client follows the redirects it is
\* answered with, up to REDIRECT_LIMIT of them, and fails on one more; it
\* also fails when the connection does (failed).  Err is BAD_REQUEST.
DlSend(failed) ==
    /\ dl_pc = "send"
    /\ LET followed == IF Len(dl_hops) > REDIRECT_LIMIT THEN REDIRECT_LIMIT ELSE Len(dl_hops)
           visited == <<dl_url>> \o SubSeq(dl_hops, 1, followed)
       IN  IF failed
           THEN /\ dl_sent' = <<dl_url>>
                /\ dl_pc' = "done"
                /\ dl_status' = 400
                /\ UNCHANGED dl_final
           ELSE /\ dl_sent' = visited
                /\ IF Len(dl_hops) > REDIRECT_LIMIT
                   THEN /\ dl_pc' = "done"
                        /\ dl_status' = 400
                        /\ UNCHANGED dl_final
                   ELSE /\ dl_pc' = "final"
                        /\ dl_final' = visited[Len(visited)]
                        /\ UNCHANGED dl_status
    /\ UNCHANGED <<dl_url, dl_hops, dl_dest, offDl>>

\* The mutant: the final URL is not validated.
DlFinalUnchecked ==
    /\ dl_pc = "final"
    /\ dl_pc' = "write"
    /\ UNCHANGED <<dl_url, dl_hops, dl_sent, dl_final, dl_status, dl_dest, offDl>>

\* validate_url_for_ssrf(&final_url).map_err(|e| (BAD_REQUEST, "Redirect
\* target blocked"))?
DlFinal ==
    /\ dl_pc = "final"
    /\ IF validate_url_for_ssrf(dl_final) = "Ok"
       THEN /\ dl_pc' = "write"
            /\ UNCHANGED dl_status
       ELSE /\ dl_pc' = "done"
            /\ dl_status' = 400
    /\ UNCHANGED <<dl_url, dl_hops, dl_sent, dl_final, dl_dest, offDl>>

\* The rest of the handler: BAD_REQUEST for a status that is not a success;
\* the body goes to a temporary file and from there to the destination path;
\* an error on the way is INTERNAL_SERVER_ERROR.
DlWrite(success, written) ==
    /\ dl_pc = "write"
    /\ dl_pc' = "done"
    /\ IF ~success
       THEN /\ dl_status' = 400
            /\ UNCHANGED dl_dest
       ELSE IF ~written
       THEN /\ dl_status' = 500
            /\ UNCHANGED dl_dest
       ELSE /\ dl_status' = 200
            /\ dl_dest' = dl_final
    /\ UNCHANGED <<dl_url, dl_hops, dl_sent, dl_final, offDl>>

\* -------------------------------------------------------------- run_command

\* A command is the sequence of its characters.
DANGEROUS_PATTERNS ==
    <<
     [pattern |-> <<"f", "i", "n", "d", " ", "/">>,
      suggestion |-> "Use 'find /root/work/' or a specific directory path"],
     [pattern |-> <<"f", "i", "n", "d", " ", "/", " ">>,
      suggestion |-> "Use 'find /root/work/' or a specific directory path"],
     [pattern |-> <<"g", "r", "e", "p", " ", "-", "r", " ", "/">>,
      suggestion |-> "Use 'grep -r /root/' or a specific directory path"],
     [pattern |-> <<"g", "r", "e", "p", " ", "-", "r", "n", " ", "/">>,
      suggestion |-> "Use 'grep -rn /root/' or a specific directory path"],
     [pattern |-> <<"g", "r", "e", "p", " ", "-", "R", " ", "/">>,
      suggestion |-> "Use 'grep -R /root/' or a specific directory path"],
     [pattern |-> <<"l", "s", " ", "-", "l", "a", "R", " ", "/">>,
      suggestion |-> "Use a specific directory path instead of root"],
     [pattern |-> <<"d", "u", " ", "-", "s", "h", " ", "/">>,
      suggestion |-> "Use a specific directory path instead of root"],
     [pattern |-> <<"d", "u", " ", "-", "a", " ", "/">>,
      suggestion |-> "Use a specific directory path instead of root"],
     [pattern |-> <<"r", "m", " ", "-", "r", "f", " ", "/">>,
      suggestion |-> "This would destroy the entire system"],
     [pattern |-> <<"r", "m", " ", "-", "r", "f", " ", "/", "*">>,
      suggestion |-> "This would destroy the entire system"],
     [pattern |-> <<">", " ", "/", "d", "e", "v", "/">>,
      suggestion |-> "Writing to device files is blocked"],
     [pattern |-> <<"d", "d", " ", "i", "f", "=", "/", "d", "e", "v", "/">>,
      suggestion |-> "Direct disk operations are blocked"]>>

\* let prefixes = ["sudo ", "time ", "nice ", "nohup "]
prefixes == <<<<"s", "u", "d", "o", " ">>, <<"t", "i", "m", "e", " ">>, <<"n", "i", "c", "e", " ">>, <<"n", "o", "h", "u", "p", " ">>>>

\* str::starts_with
starts_with(s, p) == Len(p) <= Len(s) /\ SubSeq(s, 1, Len(p)) = p

after_prefix(s, prefix) == SubSeq(s, Len(prefix) + 1, Len(s))

\* The loop body of validate_command for the pattern at index i: the trimmed
\* command starts with it, or does so after one of the prefixes.
blocked_by(cmd_trimmed, i) ==
    \/ starts_with(cmd_trimmed, DANGEROUS_PATTERNS[i].pattern)
    \/ \E j \in 1..Len(prefixes) :
          /\ starts_with(cmd_trimmed, prefixes[j])
          /\ starts_with(after_prefix(cmd_trimmed, prefixes[j]), DANGEROUS_PATTERNS[i].pattern)

Unblocked == [kind |-> "Ok", pattern |-> <<>>, suggestion |-> "", len |-> 0]

Blocked(i) ==
    [kind |-> "Blocked", pattern |-> DANGEROUS_PATTERNS[i].pattern,
     suggestion |-> DANGEROUS_PATTERNS[i].suggestion, len |-> 0]

\* The mutant: the command is not trimmed.
validate_untrimmed(cmd) ==
    LET hits == {i \in 1..Len(DANGEROUS_PATTERNS) : blocked_by(cmd, i)}
    IN  IF hits = {} THEN Unblocked
        ELSE Blocked(CHOOSE i \in hits : \A j \in hits : i <= j)

\* validate_command: Err for the first pattern of the list that blocks the
\* command, with that pattern and its suggestion in the message.
validate_command(cmd) ==
    LET cmd_trimmed == trim(cmd)
        hits == {i \in 1..Len(DANGEROUS_PATTERNS) : blocked_by(cmd_trimmed, i)}
    IN  IF hits = {} THEN Unblocked
        ELSE Blocked(CHOOSE i \in hits : \A j \in hits : i <= j)

\* The commands: white space, then up to MaxPrefixes words that go before a
\* command, then the command proper, then what follows it.
Pads == {<<>>, <<" ">>, <<"\t">>}
Words == {prefixes[j] : j \in 1..Len(prefixes)} \cup {<<"s", "u", "d", "o", "\t">>}
Bodies ==
    {DANGEROUS_PATTERNS[i].pattern : i \in 1..Len(DANGEROUS_PATTERNS)}
    \cup {<<"f", "i", "n", "d", " ", ".">>,
          <<"l", "s">>,
          <<"e", "c", "h", "o", " ", ">", " ", "/", "d", "e", "v", "/", "n", "u", "l", "l">>}
Tails == {<<>>, <<"x">>}

RECURSIVE WordsOf(_)
WordsOf(n) ==
    IF n = 0 THEN {<<>>}
    ELSE {<<>>} \cup {w \o ws : w \in Words, ws \in WordsOf(n - 1)}

Commands ==
    {pad \o ws \o body \o tail :
        pad \in Pads, ws \in WordsOf(MaxPrefixes), body \in Bodies, tail \in Tails}

Ls == <<"l", "s">>

\* const DEFAULT_MAX_OUTPUT_CHARS, MAX_OUTPUT_CHARS_LIMIT
DEFAULT_MAX_OUTPUT_CHARS == 10000
MAX_OUTPUT_CHARS_LIMIT == 50000

\* "\n... [output truncated]".len()
TruncatedNoticeLen == 23

\* What a pipe holds before a write to it blocks, in bytes.
PIPE_CAPACITY == 65536

\* Duration::from_secs(60), in milliseconds
DEFAULT_TIMEOUT == 60000

Given(args, key) == key \in DOMAIN args

\* The arguments of a call besides the command: a JSON object with any of the
\* keys, each with one of a few values.  "timeout" is a number of seconds in
\* the call; here it is in milliseconds.
ArgValues ==
    [max_output_chars |-> {0, 1, 5, 50000, 50001},
     timeout_ms |-> {0, 100},
     timeout_secs |-> {0, 2},
     timeout |-> {0 - 500, 500},
     stdin |-> {5, 100000}]

ArgsOver(keys) ==
    LET values == UNION {ArgValues[k] : k \in DOMAIN ArgValues}
    IN  UNION {{a \in [ks -> values] : \A k \in ks : a[k] \in ArgValues[k]} : ks \in SUBSET keys}

\* parse_timeout, in milliseconds
parse_timeout(args) ==
    IF Given(args, "timeout_ms")
    THEN (IF args["timeout_ms"] < 1 THEN 1 ELSE args["timeout_ms"])
    ELSE IF Given(args, "timeout_secs")
    THEN (IF args["timeout_secs"] < 1 THEN 1 ELSE args["timeout_secs"]) * 1000
    ELSE IF Given(args, "timeout") /\ args["timeout"] > 0
    THEN args["timeout"]
    ELSE DEFAULT_TIMEOUT

\* u64::clamp
clamp(v, lo, hi) == IF v < lo THEN lo ELSE IF v > hi THEN hi ELSE v

\* parse_max_output_chars
parse_max_output_chars(args) ==
    clamp(IF Given(args, "max_output_chars") THEN args["max_output_chars"]
          ELSE DEFAULT_MAX_OUTPUT_CHARS,
          1, MAX_OUTPUT_CHARS_LIMIT)

NoRet == [kind |-> "none", pattern |-> <<>>, suggestion |-> "", len |-> 0]
Failed(kind) == [kind |-> kind, pattern |-> <<>>, suggestion |-> "", len |-> 0]

\* run_command has not been called.
RcRest ==
    /\ rc_cmd = <<>>
    /\ rc_args = <<>>
    /\ rc_pc = "idle"
    /\ rc_child = "none"
    /\ rc_read = FALSE
    /\ rc_spawns = 0
    /\ rc_now = 0
    /\ rc_started = 0
    /\ rc_deadline = 0
    /\ rc_ret = NoRet

\* A call of run_command with a command and arguments.
RcStart(commands, arguments) ==
    /\ rc_cmd \in commands
    /\ rc_args \in arguments
    /\ rc_pc = "validate"
    /\ rc_child = "none"
    /\ rc_read = FALSE
    /\ rc_spawns = 0
    /\ rc_now = 0
    /\ rc_started = 0
    /\ rc_deadline = 0
    /\ rc_ret = NoRet

\* execute: if let Err(msg) = validate_command(command) { return Err(msg) };
\* otherwise the command goes to run_host_command or run_container_command.
RcValidate ==
    /\ rc_pc = "validate"
    /\ IF validate_command(rc_cmd).kind = "Blocked"
       THEN /\ rc_ret' = validate_command(rc_cmd)
            /\ rc_pc' = "done"
       ELSE /\ rc_pc' = "spawn"
            /\ UNCHANGED rc_ret
    /\ UNCHANGED <<rc_cmd, rc_args, rc_child, rc_read, rc_spawns, rc_now, rc_started, rc_deadline, offRc>>

\* run_shell_command: cmd.spawn(), Err when it fails.  With a stdin argument
\* the input is written next; without one the timeout starts here.
RcSpawn(spawned) ==
    /\ rc_pc = "spawn"
    /\ IF spawned
       THEN /\ rc_child' = "running"
            /\ rc_spawns' = rc_spawns + 1
            /\ rc_started' = rc_now
            /\ rc_pc' = IF Given(rc_args, "stdin") THEN "stdin" ELSE "wait"
            /\ rc_deadline' = IF Given(rc_args, "stdin") THEN rc_deadline
                              ELSE rc_now + parse_timeout(rc_args)
            /\ UNCHANGED rc_ret
       ELSE /\ rc_ret' = Failed("Failed to execute command")
            /\ rc_pc' = "done"
            /\ UNCHANGED <<rc_child, rc_spawns, rc_started, rc_deadline>>
    /\ UNCHANGED <<rc_cmd, rc_args, rc_read, rc_now, offRc>>

\* stdin.write_all(input).await: done when the input fits in the pipe or the
\* process reads it; Err when the process has exited without reading it.
\* The timeout of wait_with_output starts after it.
RcWriteStdin ==
    /\ rc_pc = "stdin"
    /\ \/ /\ rc_args["stdin"] <= PIPE_CAPACITY \/ rc_read
          /\ rc_pc' = "wait"
          /\ rc_deadline' = rc_now + parse_timeout(rc_args)
          /\ UNCHANGED rc_ret
       \/ /\ rc_args["stdin"] > PIPE_CAPACITY
          /\ ~rc_read
          /\ rc_child = "exited"
          /\ rc_pc' = "done"
          /\ rc_ret' = Failed("Failed to write to stdin")
          /\ UNCHANGED rc_deadline
    /\ UNCHANGED <<rc_cmd, rc_args, rc_child, rc_read, rc_spawns, rc_now, rc_started, offRc>>

\* timeout(options.timeout, child.wait_with_output()) is Ok: the process has
\* exited.  The rest of execute builds the result, `len` characters long, and
\* truncates it: result.truncate(max); result.push_str("\n... [output
\* truncated]").
RcOutput(len) ==
    /\ rc_pc = "wait"
    /\ rc_child = "exited"
    /\ LET max == parse_max_output_chars(rc_args)
       IN  rc_ret' = [kind |-> "Ok", pattern |-> <<>>, suggestion |-> "",
                      len |-> IF len > max THEN max + TruncatedNoticeLen ELSE len]
    /\ rc_pc' = "done"
    /\ UNCHANGED <<rc_cmd, rc_args, rc_child, rc_read, rc_spawns, rc_now, rc_started, rc_deadline, offRc>>

\* timeout(...) is Err(Elapsed): the time is up and the process runs.
RcTimeout ==
    /\ rc_pc = "wait"
    /\ rc_child = "running"
    /\ rc_now >= rc_deadline
    /\ rc_ret' = Failed("Command timed out")
    /\ rc_pc' = "done"
    /\ UNCHANGED <<rc_cmd, rc_args, rc_child, rc_read, rc_spawns, rc_now, rc_started, rc_deadline, offRc>>

\* The lengths a result can have around the limit of the call.
ResultLens ==
    LET max == parse_max_output_chars(rc_args)
    IN  {0, max - 1, max, max + 1}

\* The process reads its standard input.
ChildRead ==
    /\ rc_child = "running"
    /\ rc_pc = "stdin"
    /\ ~rc_read
    /\ rc_read' = TRUE
    /\ UNCHANGED <<rc_cmd, rc_args, rc_pc, rc_child, rc_spawns, rc_now, rc_started, rc_deadline, rc_ret, offRc>>

\* The process exits.
RcChildExit ==
    /\ rc_child = "running"
    /\ rc_pc \in {"stdin", "wait"}
    /\ rc_child' = "exited"
    /\ UNCHANGED <<rc_cmd, rc_args, rc_pc, rc_read, rc_spawns, rc_now, rc_started, rc_deadline, rc_ret, offRc>>

\* The call cannot go on: write_all waits for room in the pipe, or
\* wait_with_output for the process and its timer is not due.
RcBlocked ==
    \/ /\ rc_pc = "stdin"
       /\ rc_args["stdin"] > PIPE_CAPACITY
       /\ ~rc_read
       /\ rc_child = "running"
    \/ /\ rc_pc = "wait"
       /\ rc_child = "running"
       /\ rc_now < rc_deadline

\* Time passes while the call is blocked, one timeout of the call at a time.
RcTick ==
    /\ RcBlocked
    /\ rc_now < rc_started + MaxWaits * parse_timeout(rc_args)
    /\ rc_now' = rc_now + parse_timeout(rc_args)
    /\ UNCHANGED <<rc_cmd, rc_args, rc_pc, rc_child, rc_read, rc_spawns, rc_started, rc_deadline, rc_ret, offRc>>

RcNext ==
    \/ RcValidate
    \/ \E spawned \in BOOLEAN : RcSpawn(spawned)
    \/ RcWriteStdin
    \/ \E len \in ResultLens : RcOutput(len)
    \/ RcTimeout
    \/ ChildRead
    \/ RcChildExit
    \/ RcTick

\* ------------------------------------------------------------ desktop stream

\* The fps and quality a query or a control message can carry (u32).
FpsValues == {0, 15, 50}
QualityValues == {5, 70, 150}

\* StreamParams: fps and quality are optional.
StreamParams ==
    UNION {{q \in [ks -> FpsValues \cup QualityValues] :
                /\ "fps" \in ks => q["fps"] \in FpsValues
                /\ "quality" \in ks => q["quality"] \in QualityValues} :
           ks \in SUBSET {"fps", "quality"}}

\* ClientCommand, and a text that is not one.
Pause == [t |-> "pause", v |-> 0]
Resume == [t |-> "resume", v |-> 0]
SetFps(v) == [t |-> "fps", v |-> v]
SetQuality(v) == [t |-> "quality", v |-> v]
Texts ==
    {Pause, Resume, [t |-> "junk", v |-> 0]}
    \cup {SetFps(v) : v \in FpsValues} \cup {SetQuality(v) : v \in QualityValues}
Close == [t |-> "close", v |-> 0]

\* The desktop stream is not used.
DsRest ==
    /\ params = <<>>
    /\ client = "none"
    /\ msgs = 0
    /\ ws_receiver = <<>>
    /\ cmd_rx = <<>>
    /\ recv_task = "none"
    /\ stream_task = "none"
    /\ select = "none"
    /\ paused = FALSE
    /\ fps = 0
    /\ current_quality = 0
    /\ frame_interval = 0
    /\ frame_count = 0

\* handle_desktop_stream up to its select: fps and quality are clamped, both
\* tasks are spawned.
DsStart(queries) ==
    /\ params \in queries
    /\ client = "open"
    /\ msgs = 0
    /\ ws_receiver = <<>>
    /\ cmd_rx = <<>>
    /\ recv_task = "running"
    /\ stream_task = "spawned"
    /\ select = "waiting"
    /\ paused = FALSE
    /\ fps = clamp(IF Given(params, "fps") THEN params["fps"] ELSE 10, 1, 30)
    /\ current_quality = clamp(IF Given(params, "quality") THEN params["quality"] ELSE 70, 10, 100)
    /\ frame_interval = 1000 \div fps
    /\ frame_count = 0

\* The client sends a text message.
ClientSend(text) ==
    /\ client = "open"
    /\ msgs < MaxMsgs
    /\ msgs' = msgs + 1
    /\ ws_receiver' = Append(ws_receiver, text)
    /\ UNCHANGED <<params, client, cmd_rx, recv_task, stream_task, select, paused, fps,
                   current_quality, frame_interval, frame_count, offDs>>

\* The client closes the socket, with a close frame or without one.
ClientClose(frame) ==
    /\ client = "open"
    /\ client' = "closed"
    /\ ws_receiver' = IF frame THEN Append(ws_receiver, Close) ELSE ws_receiver
    /\ UNCHANGED <<params, msgs, cmd_rx, recv_task, stream_task, select, paused, fps,
                   current_quality, frame_interval, frame_count, offDs>>

\* The receive task: a text that parses as a ClientCommand goes to the
\* channel, a close frame ends the loop, anything else is skipped.
RecvNext ==
    /\ recv_task = "running"
    /\ ws_receiver # <<>>
    /\ LET msg == Head(ws_receiver)
       IN  /\ ws_receiver' = Tail(ws_receiver)
           /\ recv_task' = IF msg = Close THEN "ended" ELSE "running"
           /\ cmd_rx' = IF msg.t \in {"pause", "resume", "fps", "quality"}
                        THEN Append(cmd_rx, msg) ELSE cmd_rx
    /\ UNCHANGED <<params, client, msgs, stream_task, select, paused, fps,
                   current_quality, frame_interval, frame_count, offDs>>

\* The receive task: ws_receiver.next() is None or an error once the client
\* has closed the socket.
RecvEnd ==
    /\ recv_task = "running"
    /\ ws_receiver = <<>>
    /\ client = "closed"
    /\ recv_task' = "ended"
    /\ UNCHANGED <<params, client, msgs, ws_receiver, cmd_rx, stream_task, select, paused, fps,
                   current_quality, frame_interval, frame_count, offDs>>

Streaming(p, f, q, i) == [paused |-> p, fps |-> f, quality |-> q, interval |-> i]

\* The mutant: the new quality is taken as it is.
apply_unclamped(st, cmd) ==
    CASE cmd.t = "pause" -> [st EXCEPT !.paused = TRUE]
      [] cmd.t = "resume" -> [st EXCEPT !.paused = FALSE]
      [] cmd.t = "fps" ->
            [st EXCEPT !.fps = clamp(cmd.v, 1, 30),
                       !.interval = 1000 \div clamp(cmd.v, 1, 30)]
      [] cmd.t = "quality" -> [st EXCEPT !.quality = cmd.v]

\* match cmd { Pause, Resume, SetFps, SetQuality }
apply_command(st, cmd) ==
    CASE cmd.t = "pause" -> [st EXCEPT !.paused = TRUE]
      [] cmd.t = "resume" -> [st EXCEPT !.paused = FALSE]
      [] cmd.t = "fps" ->
            [st EXCEPT !.fps = clamp(cmd.v, 1, 30),
                       !.interval = 1000 \div clamp(cmd.v, 1, 30)]
      [] cmd.t = "quality" -> [st EXCEPT !.quality = clamp(cmd.v, 10, 100)]

\* while let Ok(cmd) = cmd_rx.try_recv() { ... }
RECURSIVE drain(_, _)
drain(st, cmds) ==
    IF cmds = <<>> THEN st ELSE drain(apply_command(st, Head(cmds)), Tail(cmds))

\* The top of the capture loop, up to its next await: the commands are
\* applied; a paused stream sleeps, another captures a frame.
LoopTop ==
    LET st == drain(Streaming(paused, fps, current_quality, frame_interval), cmd_rx)
    IN  /\ cmd_rx' = <<>>
        /\ paused' = st.paused
        /\ fps' = st.fps
        /\ current_quality' = st.quality
        /\ frame_interval' = st.interval
        /\ stream_task' = IF st.paused THEN "paused_sleep" ELSE "capture"

\* The capture task is polled for the first time, or one of the sleeps at the
\* end of an iteration is over.
StreamLoop ==
    /\ stream_task \in {"spawned", "paused_sleep", "sleep"}
    /\ LoopTop
    /\ UNCHANGED <<params, client, msgs, ws_receiver, recv_task, select, frame_count, offDs>>

\* capture_frame(&x11_display, current_quality).await: a frame, or an error.
Capture(ok) ==
    /\ stream_task = "capture"
    /\ frame_count < MaxShots
    /\ frame_count' = IF ok THEN frame_count + 1 ELSE frame_count
    /\ stream_task' = IF ok THEN "send_frame" ELSE "send_error"
    /\ UNCHANGED <<params, client, msgs, ws_receiver, cmd_rx, recv_task, select, paused, fps,
                   current_quality, frame_interval, offDs>>

\* ws_sender.send(...).await: an error ends the loop.  A send fails only when
\* the client has closed the socket.  After an error message the task sleeps
\* before the sleep between frames.
Send(ok) ==
    /\ stream_task \in {"send_frame", "send_error"}
    /\ ~ok => client = "closed"
    /\ stream_task' = IF ok THEN "sleep" ELSE "ended"
    /\ UNCHANGED <<params, client, msgs, ws_receiver, cmd_rx, recv_task, select, paused, fps,
                   current_quality, frame_interval, frame_count, offDs>>

\* The mutant: the first task to end is awaited and the other left running.
SelectNoAbort ==
    /\ select = "waiting"
    /\ recv_task = "ended" \/ stream_task = "ended"
    /\ select' = "returned"
    /\ UNCHANGED <<params, client, msgs, ws_receiver, cmd_rx, recv_task, stream_task, paused, fps,
                   current_quality, frame_interval, frame_count, offDs>>

\* tokio::select!: when the receive task has ended the capture task is
\* aborted, when the capture task has ended the receive task is.  Each task
\* is at an await, where an abort stops it.
Select ==
    /\ select = "waiting"
    /\ \/ /\ recv_task = "ended"
          /\ stream_task' = IF stream_task = "ended" THEN "ended" ELSE "aborted"
          /\ UNCHANGED recv_task
       \/ /\ stream_task = "ended"
          /\ recv_task' = IF recv_task = "ended" THEN "ended" ELSE "aborted"
          /\ UNCHANGED stream_task
    /\ select' = "returned"
    /\ UNCHANGED <<params, client, msgs, ws_receiver, cmd_rx, paused, fps,
                   current_quality, frame_interval, frame_count, offDs>>

DsNext ==
    \/ \E text \in Texts : ClientSend(text)
    \/ \E frame \in BOOLEAN : ClientClose(frame)
    \/ RecvNext
    \/ RecvEnd
    \/ StreamLoop
    \/ \E ok \in BOOLEAN : Capture(ok)
    \/ \E ok \in BOOLEAN : Send(ok)
    \/ Select

\* ---------------------------------------------------------- workspace shell

\* The workspaces shell requests name here: the container workspace and an
\* id the store does not hold.
ShellIds == {OldId, FirstNewId}

\* The client whose requests build workspaces.
Builder == CHOOSE c \in Clients : TRUE

\* format!("workspace:{}:dev", workspace_id)
session_key(id) == "workspace:w1:dev"

\* No workspace-shell request was made.
ShellRest ==
    /\ resp = [h \in Handlers |-> "none"]
    /\ workspace_id = [h \in Handlers |-> DEFAULT_WORKSPACE_ID]
    /\ shell_ws = [s \in SessionIds |-> Absent]

\* workspace_shell_ws: 401 without a valid token, 404 for an id the store
\* does not hold, 400 for a container that is not ready; else the upgrade,
\* whose callback is handle_workspace_shell.
WorkspaceShellWs(h, id, authorized) ==
    /\ up
    /\ pc[h] = "idle"
    /\ IF ~authorized
       THEN /\ resp' = [resp EXCEPT ![h] = "UNAUTHORIZED"]
            /\ UNCHANGED <<pc, hkey, workspace_id>>
       ELSE IF workspaces[id] = Absent
       THEN /\ resp' = [resp EXCEPT ![h] = "NOT_FOUND"]
            /\ UNCHANGED <<pc, hkey, workspace_id>>
       ELSE IF workspaces[id].type = "chroot" /\ workspaces[id].status # "ready"
       THEN /\ resp' = [resp EXCEPT ![h] = "BAD_REQUEST"]
            /\ UNCHANGED <<pc, hkey, workspace_id>>
       ELSE /\ resp' = [resp EXCEPT ![h] = "upgrade"]
            /\ pc' = [pc EXCEPT ![h] = "shell_read_pool"]
            /\ hkey' = [hkey EXCEPT ![h] = session_key(id)]
            /\ workspace_id' = [workspace_id EXCEPT ![h] = id]
    /\ UNCHANGED <<sessions, rwlock, sess, nextSid, hsess, rpc, expired, nextSweep, now,
                   ioVars, inVars, shell_ws, offShell>>

\* handle_workspace_shell: sessions.read().await; sessions.get(&session_key).cloned()
ShellReadPool(h) ==
    /\ pc[h] = "shell_read_pool"
    /\ rwlock = Free
    /\ hsess' = [hsess EXCEPT ![h] = sessions[hkey[h]]]
    /\ pc' = [pc EXCEPT ![h] = IF sessions[hkey[h]] = NoSession THEN "shell_spawn" ELSE "shell_check"]
    /\ UNCHANGED <<sessions, rwlock, sess, nextSid, hkey, rpc, expired, nextSweep, now,
                   ioVars, inVars, shellVars, offShell>>

\* handle_workspace_shell: session.lock().await, then the reuse test: a free
\* session with an open channel is reused through handle_existing_session,
\* else handle_new_workspace_shell.
ShellCheckReuse(h) ==
    /\ pc[h] = "shell_check"
    /\ TryLock(hsess[h])
    /\ IF Reusable(hsess[h])
       THEN /\ sess' = MarkInUse(hsess[h])
            /\ pc' = [pc EXCEPT ![h] = "existing_lock"]
            /\ UNCHANGED hsess
       ELSE /\ pc' = [pc EXCEPT ![h] = "shell_spawn"]
            /\ hsess' = [hsess EXCEPT ![h] = NoSession]
            /\ UNCHANGED sess
    /\ UNCHANGED <<sessions, rwlock, nextSid, hkey, rpc, expired, nextSweep, now,
                   ioVars, inVars, shellVars, offShell>>

\* handle_new_workspace_shell up to the PooledSession: the workspace is read
\* again (gone: the socket is closed); the PTY is opened and the shell
\* spawned in the workspace as it is now, systemd-nspawn for a container (or
\* a step fails and the socket is closed).
NewWorkspaceShell(h, spawned) ==
    /\ up
    /\ pc[h] = "shell_spawn"
    /\ LET workspace == workspaces[workspace_id[h]] IN
       IF workspace = Absent \/ ~spawned
       THEN /\ pc' = [pc EXCEPT ![h] = "idle"]
            /\ hkey' = [hkey EXCEPT ![h] = ""]
            /\ UNCHANGED <<sess, hsess, nextSid, shell_ws>>
       ELSE /\ nextSid <= MaxSessions
            /\ sess' = [sess EXCEPT ![nextSid] = NewSession(hkey[h])]
            /\ shell_ws' = [shell_ws EXCEPT ![nextSid] = workspace]
            /\ hsess' = [hsess EXCEPT ![h] = nextSid]
            /\ nextSid' = nextSid + 1
            /\ pc' = [pc EXCEPT ![h] = "insert_wlock"]
            /\ UNCHANGED hkey
    /\ UNCHANGED <<sessions, rwlock, rpc, expired, nextSweep, now, ioVars, inVars,
                   resp, workspace_id, offShell>>

\* ---------------------------------------------------------- graceful shutdown

Controls == 1..MaxControls

MissionIds == 1..MaxMissions

\* The control session a mission runs in.
owner(m) == ((m - 1) % MaxControls) + 1

MissionStatus == {"pending", "running", "completed", "interrupted"}

NoReply == [state |-> "none", ids |-> <<>>]

\* The missions of the set ms as a Vec, in ascending order.
RECURSIVE IdsOf(_)
IdsOf(ms) ==
    IF ms = {} THEN <<>>
    ELSE LET m == CHOOSE x \in ms : \A y \in ms : x <= y
         IN  <<m>> \o IdsOf(ms \ {m})

Range(seq) == {seq[i] : i \in 1..Len(seq)}

Running(i) == {m \in MissionIds : owner(m) = i /\ missions[m] = "running"}

\* The program runs without control sessions and no signal has come.
SdRest ==
    /\ control_sessions = {}
    /\ actor = [i \in Controls |-> "none"]
    /\ cmd_queue = [i \in Controls |-> FALSE]
    /\ respond = [i \in Controls |-> NoReply]
    /\ missions = [m \in MissionIds |-> "pending"]
    /\ sd_pc = "wait"
    /\ sd_i = 1
    /\ all_interrupted = <<>>

\* The program runs with the control sessions cs, their actors running.
SdStart(cs) ==
    /\ control_sessions = cs
    /\ actor = [i \in Controls |-> IF i \in cs THEN "running" ELSE "none"]
    /\ cmd_queue = [i \in Controls |-> FALSE]
    /\ respond = [i \in Controls |-> NoReply]
    /\ missions = [m \in MissionIds |-> "pending"]
    /\ sd_pc = "wait"
    /\ sd_i = 1
    /\ all_interrupted = <<>>

\* A control session starts a mission.
StartMission(m) ==
    /\ actor[owner(m)] = "running"
    /\ missions[m] = "pending"
    /\ missions' = [missions EXCEPT ![m] = "running"]
    /\ UNCHANGED <<control_sessions, actor, cmd_queue, respond, sd_pc, sd_i, all_interrupted, offSd>>

\* A mission runs to its end.
FinishMission(m) ==
    /\ missions[m] = "running"
    /\ missions' = [missions EXCEPT ![m] = "completed"]
    /\ UNCHANGED <<control_sessions, actor, cmd_queue, respond, sd_pc, sd_i, all_interrupted, offSd>>

\* The actor of a control session that runs no mission ends: the receiver of
\* its command channel is dropped, and with it a command that was in the
\* channel and the responder in it.
ActorEnd(i) ==
    /\ actor[i] = "running"
    /\ Running(i) = {}
    /\ actor' = [actor EXCEPT ![i] = "ended"]
    /\ cmd_queue' = [cmd_queue EXCEPT ![i] = FALSE]
    /\ respond' = [respond EXCEPT ![i] = IF cmd_queue[i] THEN [state |-> "dropped", ids |-> <<>>] ELSE @]
    /\ UNCHANGED <<control_sessions, missions, sd_pc, sd_i, all_interrupted, offSd>>

\* The actor of a control session takes GracefulShutdown from its command
\* channel: it marks its running missions interrupted, sends their ids
\* through the responder and starts no mission any more.
ActorShutdown(i) ==
    /\ actor[i] = "running"
    /\ cmd_queue[i]
    /\ missions' = [m \in MissionIds |-> IF m \in Running(i) THEN "interrupted" ELSE missions[m]]
    /\ respond' = [respond EXCEPT ![i] = [state |-> "sent", ids |-> IdsOf(Running(i))]]
    /\ cmd_queue' = [cmd_queue EXCEPT ![i] = FALSE]
    /\ actor' = [actor EXCEPT ![i] = "stopping"]
    /\ UNCHANGED <<control_sessions, sd_pc, sd_i, all_interrupted, offSd>>

\* The sessions all_sessions() returned that the loop has not visited yet.
Ahead(i) == {j \in control_sessions : j >= i}

\* The session the loop visits after the sessions before i.
NextSession(i) == CHOOSE j \in Ahead(i) : \A k \in Ahead(i) : j <= k

\* shutdown_signal: ctrl_c or SIGTERM arrives; all_sessions(); without a
\* session the function returns.
Signal ==
    /\ sd_pc = "wait"
    /\ sd_pc' = IF control_sessions = {} THEN "done" ELSE "send"
    /\ all_interrupted' = <<>>
    /\ UNCHANGED <<control_sessions, actor, cmd_queue, respond, missions, sd_i, offSd>>

\* The loop is past session i: the next session, or the end of the function.
Continue(i) ==
    /\ sd_i' = i + 1
    /\ sd_pc' = IF Ahead(i + 1) = {} THEN "done" ELSE "send"

\* control.cmd_tx.send(GracefulShutdown { respond: tx }).await: Err when the
\* receiver is dropped (logged, continue), else the command is in the channel.
ShutdownSend ==
    /\ sd_pc = "send"
    /\ LET i == NextSession(sd_i) IN
       IF actor[i] = "ended"
       THEN /\ Continue(i)
            /\ UNCHANGED <<cmd_queue, respond>>
       ELSE /\ cmd_queue' = [cmd_queue EXCEPT ![i] = TRUE]
            /\ respond' = [respond EXCEPT ![i] = [state |-> "open", ids |-> <<>>]]
            /\ sd_i' = i
            /\ sd_pc' = "await"
    /\ UNCHANGED <<control_sessions, actor, missions, all_interrupted, offSd>>

\* Mutant of ShutdownAwait: the reply replaces the ids collected so far.
ShutdownAwaitLast ==
    /\ sd_pc = "await"
    /\ respond[sd_i].state \in {"sent", "dropped"}
    /\ all_interrupted' = IF respond[sd_i].state = "sent"
                          THEN respond[sd_i].ids
                          ELSE all_interrupted
    /\ respond' = [respond EXCEPT ![sd_i].state = IF @ = "sent" THEN "taken" ELSE @]
    /\ Continue(sd_i)
    /\ UNCHANGED <<control_sessions, actor, cmd_queue, missions, offSd>>

\* rx.await: Ok(ids) is appended to all_interrupted; Err (the responder was
\* dropped) is logged.  Then the next session.
ShutdownAwait ==
    /\ sd_pc = "await"
    /\ respond[sd_i].state \in {"sent", "dropped"}
    /\ all_interrupted' = IF respond[sd_i].state = "sent"
                          THEN all_interrupted \o respond[sd_i].ids
                          ELSE all_interrupted
    /\ respond' = [respond EXCEPT ![sd_i].state = IF @ = "sent" THEN "taken" ELSE @]
    /\ Continue(sd_i)
    /\ UNCHANGED <<control_sessions, actor, cmd_queue, missions, offSd>>

SdNext ==
    \/ \E m \in MissionIds : StartMission(m) \/ FinishMission(m)
    \/ \E i \in Controls : ActorEnd(i) \/ ActorShutdown(i)
    \/ Signal
    \/ ShutdownSend
    \/ ShutdownAwait

\* ------------------------------------------------------------------- tasks

TaskIds == 1..MaxTasks

TaskStatus == {"Pending", "Running", "Completed", "Failed", "Cancelled"}

\* No task was created.
TaskRest ==
    /\ tasks = [t \in TaskIds |-> "none"]
    /\ run_pc = [t \in TaskIds |-> "none"]
    /\ stop_ret = [t \in TaskIds |-> "none"]

\* create_task: the task is stored as Pending and run_agent_task is spawned.
CreateTask(t) ==
    /\ tasks[t] = "none"
    /\ \A u \in TaskIds : u < t => tasks[u] # "none"
    /\ tasks' = [tasks EXCEPT ![t] = "Pending"]
    /\ run_pc' = [run_pc EXCEPT ![t] = "start"]
    /\ UNCHANGED <<stop_ret, offTask>>

\* stop_task: a running task becomes Cancelled; another status is
\* BAD_REQUEST and an unknown id NOT_FOUND.
StopTask(t) ==
    /\ IF tasks[t] = "none"
       THEN /\ stop_ret' = [stop_ret EXCEPT ![t] = "NOT_FOUND"]
            /\ UNCHANGED tasks
       ELSE IF tasks[t] = "Running"
       THEN /\ tasks' = [tasks EXCEPT ![t] = "Cancelled"]
            /\ stop_ret' = [stop_ret EXCEPT ![t] = "Ok"]
       ELSE /\ stop_ret' = [stop_ret EXCEPT ![t] = "BAD_REQUEST"]
            /\ UNCHANGED tasks
    /\ UNCHANGED <<run_pc, offTask>>

\* run_agent_task: task_state.status = TaskStatus::Running
RunStart(t) ==
    /\ run_pc[t] = "start"
    /\ tasks' = [tasks EXCEPT ![t] = "Running"]
    /\ run_pc' = [run_pc EXCEPT ![t] = "new"]
    /\ UNCHANGED <<stop_ret, offTask>>

\* run_agent_task: Task::new is Ok, or Err, which sets Failed and returns.
RunTaskNew(t, ok) ==
    /\ run_pc[t] = "new"
    /\ IF ok
       THEN /\ run_pc' = [run_pc EXCEPT ![t] = "execute"]
            /\ UNCHANGED tasks
       ELSE /\ tasks' = [tasks EXCEPT ![t] = "Failed"]
            /\ run_pc' = [run_pc EXCEPT ![t] = "done"]
    /\ UNCHANGED <<stop_ret, offTask>>

\* run_agent_task: root_agent.execute has returned; the status becomes
\* Completed or Failed with the result.
RunFinish(t, success) ==
    /\ run_pc[t] = "execute"
    /\ tasks' = [tasks EXCEPT ![t] = IF success THEN "Completed" ELSE "Failed"]
    /\ run_pc' = [run_pc EXCEPT ![t] = "done"]
    /\ UNCHANGED <<stop_ret, offTask>>

TaskNext ==
    \E t \in TaskIds :
        \/ CreateTask(t)
        \/ StopTask(t)
        \/ RunStart(t)
        \/ \E ok \in BOOLEAN : RunTaskNew(t, ok)
        \/ \E success \in BOOLEAN : RunFinish(t, success)

\* ------------------------------------------------------------ secrets store

Passphrases == {"right", "wrong"}

RegistryNames == {"a", "b"}

SecretKeys == {"k1", "k2"}

SecretValues == {"v1", "v2"}

NoEntry == [passphrase |-> "", value |-> ""]

NoRegistry == [exists |-> FALSE, secrets |-> [k \in SecretKeys |-> NoEntry]]

\* SecretsCrypto::encrypt: the value under the passphrase that is set.
encrypt(passphrase, value) == [passphrase |-> passphrase, value |-> value]

\* SecretsCrypto::decrypt: the value when the passphrase is the one the
\* secret was encrypted under, else an error (authenticated encryption).
decrypt(passphrase, secret) ==
    IF secret.passphrase = passphrase
    THEN [ok |-> TRUE, value |-> secret.value]
    ELSE [ok |-> FALSE, value |-> ""]

\* The registries that hold a secret, and the keys of a registry's secrets.
KeysOf(r) == {k \in SecretKeys : registries[r].secrets[k] # NoEntry}

Holding == {r \in RegistryNames : registries[r].exists /\ KeysOf(r) # {}}

\* What an operation returned: its name and arguments, its result, the value
\* a get_secret returned, and the operation before it.
Ret(op, r, k, v, res) ==
    [op |-> op, reg |-> r, key |-> k, value |-> v, res |-> res, after |-> sec_ret.op]

NoCallYet == [op |-> "new", reg |-> "", key |-> "", value |-> "", res |-> "Ok", after |-> ""]

\* The store is not used.
SecRest ==
    /\ crypto = ""
    /\ registries = [r \in RegistryNames |-> NoRegistry]
    /\ sec_ret = NoCallYet

\* SecretsStore::new: the passphrase of the environment, if any, is set
\* without a test, and the registries on disk are loaded: here none, or
\* registry "a" with one secret under either passphrase.
SecStart ==
    /\ crypto \in {""} \cup Passphrases
    /\ registries \in
          {[r \in RegistryNames |-> NoRegistry]} \cup
          {[r \in RegistryNames |->
               IF r = "a"
               THEN [exists |-> TRUE,
                     secrets |-> [k \in SecretKeys |->
                                     IF k = "k1" THEN encrypt(p, "v1") ELSE NoEntry]]
               ELSE NoRegistry] : p \in Passphrases}
    /\ sec_ret = NoCallYet

\* Mutant of Unlock: a passphrase that fails the test stays set.
UnlockKeepPassphrase(p) ==
    /\ IF Holding = {}
       THEN /\ crypto' = p
            /\ sec_ret' = Ret("unlock", "", "", p, "Ok")
       ELSE \E r \in Holding : \E k \in KeysOf(r) :
               IF decrypt(p, registries[r].secrets[k]).ok
               THEN /\ crypto' = p
                    /\ sec_ret' = Ret("unlock", r, k, p, "Ok")
               ELSE /\ crypto' = p
                    /\ sec_ret' = Ret("unlock", r, k, p, "Invalid passphrase")
    /\ UNCHANGED <<registries, offSec>>

\* unlock: the passphrase is set and tested on the first secret of the
\* first registry that has one (in the maps' iteration order); a failed
\* test clears it.  Without any secret it is set untested.
Unlock(p) ==
    /\ IF Holding = {}
       THEN /\ crypto' = p
            /\ sec_ret' = Ret("unlock", "", "", p, "Ok")
       ELSE \E r \in Holding : \E k \in KeysOf(r) :
               IF decrypt(p, registries[r].secrets[k]).ok
               THEN /\ crypto' = p
                    /\ sec_ret' = Ret("unlock", r, k, p, "Ok")
               ELSE /\ crypto' = ""
                    /\ sec_ret' = Ret("unlock", r, k, p, "Invalid passphrase")
    /\ UNCHANGED <<registries, offSec>>

\* lock: crypto.clear_passphrase()
Lock ==
    /\ crypto' = ""
    /\ sec_ret' = Ret("lock", "", "", "", "Ok")
    /\ UNCHANGED <<registries, offSec>>

\* get_or_create_registry(name), as the map it leaves.
get_or_create_registry(regs, name) ==
    IF regs[name].exists THEN regs ELSE [regs EXCEPT ![name].exists = TRUE]

\* set_secret: the registry is created if it is missing; locked is an
\* error; else the encrypted value is stored under the key.
SetSecret(r, k, v) ==
    /\ IF crypto = ""
       THEN /\ registries' = get_or_create_registry(registries, r)
            /\ sec_ret' = Ret("set_secret", r, k, v, "Secrets are locked")
       ELSE /\ registries' = [get_or_create_registry(registries, r) EXCEPT
                                 ![r].secrets[k] = encrypt(crypto, v)]
            /\ sec_ret' = Ret("set_secret", r, k, v, "Ok")
    /\ UNCHANGED <<crypto, offSec>>

\* get_secret: locked, no such registry, no such secret, or the decrypted
\* value (an error when the passphrase that is set does not decrypt it).
GetSecret(r, k) ==
    /\ sec_ret' =
          IF crypto = "" THEN Ret("get_secret", r, k, "", "Secrets are locked")
          ELSE IF ~registries[r].exists THEN Ret("get_secret", r, k, "", "Registry not found")
          ELSE IF registries[r].secrets[k] = NoEntry THEN Ret("get_secret", r, k, "", "Secret not found")
          ELSE IF decrypt(crypto, registries[r].secrets[k]).ok
          THEN Ret("get_secret", r, k, decrypt(crypto, registries[r].secrets[k]).value, "Ok")
          ELSE Ret("get_secret", r, k, "", "Failed to decrypt")
    /\ UNCHANGED <<crypto, registries, offSec>>

\* delete_secret: no such registry, no such secret, or the secret is removed.
DeleteSecret(r, k) ==
    /\ IF ~registries[r].exists
       THEN /\ sec_ret' = Ret("delete_secret", r, k, "", "Registry not found")
            /\ UNCHANGED registries
       ELSE IF registries[r].secrets[k] = NoEntry
       THEN /\ sec_ret' = Ret("delete_secret", r, k, "", "Secret not found")
            /\ UNCHANGED registries
       ELSE /\ sec_ret' = Ret("delete_secret", r, k, "", "Ok")
            /\ registries' = [registries EXCEPT ![r].secrets[k] = NoEntry]
    /\ UNCHANGED <<crypto, offSec>>

SecNext ==
    \/ \E p \in Passphrases : Unlock(p)
    \/ Lock
    \/ \E r \in RegistryNames, k \in SecretKeys :
          \/ \E v \in SecretValues : SetSecret(r, k, v)
          \/ GetSecret(r, k)
          \/ DeleteSecret(r, k)

\* ------------------------------------------------- secrets store: its locks

Callers == 1..NumCallers

\* The RwLocks of SecretsStore.
StoreLocks == {"config", "crypto", "registries"}

Acq(l, m) == [do |-> "acquire", lock |-> l, mode |-> m]

Rel(l) == [do |-> "release", lock |-> l, mode |-> ""]

\* The lock operations of each function of the store, in program order;
\* the guards still held at the end are dropped when the function returns.
\* A function with an early return has one sequence for each way through it.
LockPrograms ==
    [status |-> {<<Acq("config", "read"), Acq("registries", "read"), Acq("crypto", "read")>>},
     initialize |-> {<<Acq("config", "write"), Rel("config"), Acq("config", "read")>>},
     unlock |-> {<<Acq("registries", "read"), Acq("crypto", "write")>>},
     get_or_create_registry |->
        {<<Acq("registries", "write")>>,
         <<Acq("registries", "write"), Acq("config", "read")>>},
     get_secret |-> {<<Acq("crypto", "read")>>,
                     <<Acq("crypto", "read"), Acq("registries", "read")>>},
     set_secret |->
        {<<Acq("registries", "write"), Rel("registries"), Acq("crypto", "read")>>,
         <<Acq("registries", "write"), Acq("config", "read"), Rel("config"), Rel("registries"),
           Acq("crypto", "read")>>,
         <<Acq("registries", "write"), Rel("registries"), Acq("crypto", "read"), Rel("crypto"),
           Acq("registries", "write")>>,
         <<Acq("registries", "write"), Acq("config", "read"), Rel("config"), Rel("registries"),
           Acq("crypto", "read"), Rel("crypto"), Acq("registries", "write")>>},
     delete_secret |-> {<<Acq("registries", "write")>>},
     export_to_workspace |-> {<<Acq("crypto", "read")>>,
                              <<Acq("crypto", "read"), Acq("registries", "read")>>}]

StoreOps == DOMAIN LockPrograms

\* No operation runs on the store.
LockRest ==
    /\ readers_of = [l \in StoreLocks |-> {}]
    /\ writer_of = [l \in StoreLocks |-> {}]
    /\ waiters = [l \in StoreLocks |-> <<>>]
    /\ program = [c \in Callers |-> <<>>]
    /\ step_at = [c \in Callers |-> 1]

\* Caller c waits in the queue of a lock.
Queued(c) == \E l \in StoreLocks : \E i \in 1..Len(waiters[l]) : waiters[l][i].caller = c

\* A request for lock l in mode m can be granted with the guards that are
\* out: a write guard excludes every other guard.
Compatible(l, m) ==
    IF m = "read" THEN writer_of[l] = {} ELSE writer_of[l] = {} /\ readers_of[l] = {}

\* A call of operation op by caller c begins, on one way through it.
Begin(c, op) ==
    /\ program[c] = <<>>
    /\ \E way \in LockPrograms[op] : program' = [program EXCEPT ![c] = way]
    /\ step_at' = [step_at EXCEPT ![c] = 1]
    /\ UNCHANGED <<readers_of, writer_of, waiters, offLock>>

\* lock.read().await / lock.write().await: the caller joins the queue of
\* the lock, behind the requests that wait there.
Request(c) ==
    /\ program[c] # <<>>
    /\ step_at[c] <= Len(program[c])
    /\ program[c][step_at[c]].do = "acquire"
    /\ ~Queued(c)
    /\ waiters' = [waiters EXCEPT ![program[c][step_at[c]].lock] =
                      Append(@, [caller |-> c, mode |-> program[c][step_at[c]].mode])]
    /\ UNCHANGED <<readers_of, writer_of, program, step_at, offLock>>

\* The lock is fair: the request at the head of the queue gets its guard
\* as soon as it is compatible with the guards that are out; a read
\* request behind a waiting write request waits.
Grant(l) ==
    /\ waiters[l] # <<>>
    /\ Compatible(l, Head(waiters[l]).mode)
    /\ readers_of' = IF Head(waiters[l]).mode = "read"
                     THEN [readers_of EXCEPT ![l] = @ \cup {Head(waiters[l]).caller}]
                     ELSE readers_of
    /\ writer_of' = IF Head(waiters[l]).mode = "write"
                    THEN [writer_of EXCEPT ![l] = {Head(waiters[l]).caller}]
                    ELSE writer_of
    /\ step_at' = [step_at EXCEPT ![Head(waiters[l]).caller] = @ + 1]
    /\ waiters' = [waiters EXCEPT ![l] = Tail(@)]
    /\ UNCHANGED <<program, offLock>>

\* drop(guard), or the end of the guard's scope.
Release(c) ==
    /\ program[c] # <<>>
    /\ step_at[c] <= Len(program[c])
    /\ program[c][step_at[c]].do = "release"
    /\ readers_of' = [readers_of EXCEPT ![program[c][step_at[c]].lock] = @ \ {c}]
    /\ writer_of' = [writer_of EXCEPT ![program[c][step_at[c]].lock] = @ \ {c}]
    /\ step_at' = [step_at EXCEPT ![c] = @ + 1]
    /\ UNCHANGED <<waiters, program, offLock>>

\* The function returns: every guard it still holds is dropped.
Finish(c) ==
    /\ program[c] # <<>>
    /\ step_at[c] > Len(program[c])
    /\ readers_of' = [l \in StoreLocks |-> readers_of[l] \ {c}]
    /\ writer_of' = [l \in StoreLocks |-> writer_of[l] \ {c}]
    /\ program' = [program EXCEPT ![c] = <<>>]
    /\ step_at' = [step_at EXCEPT ![c] = 1]
    /\ UNCHANGED <<waiters, offLock>>

LockNext ==
    \/ \E c \in Callers :
          \/ \E op \in StoreOps : Begin(c, op)
          \/ Request(c)
          \/ Release(c)
          \/ Finish(c)
    \/ \E l \in StoreLocks : Grant(l)

\* ------------------------------------------------------- skill frontmatter

\* A SKILL.md is a sequence of characters; the words "name" and "n" (the
\* skill name, and any other word) count as one character each.
Dashes == <<"-", "-", "-">>
Blocks == {Dashes, <<"-">>, <<"\n">>, <<" ">>, <<"name">>, <<":">>, <<"n">>}

RECURSIVE DocsOf(_)
DocsOf(k) ==
    IF k = 0 THEN {<<>>}
    ELSE {<<>>} \cup {b \o d : b \in Blocks, d \in DocsOf(k - 1)}

\* skill.name
skill_name == <<"n">>

\* str::find: the byte offset of the first match, or None (-1).
find(s, p) ==
    LET at == {i \in 0..(Len(s) - Len(p)) : SubSeq(s, i + 1, i + Len(p)) = p}
    IN  IF at = {} THEN 0 - 1 ELSE CHOOSE i \in at : \A j \in at : i <= j

\* str::lines, as the set of the lines.
lines(s) ==
    LET breaks == {0, Len(s) + 1} \cup {i \in 1..Len(s) : s[i] = "\n"}
    IN  {SubSeq(s, a + 1, (CHOOSE b \in breaks : b > a /\ \A c \in breaks : c > a => b <= c) - 1) :
            a \in breaks \ {Len(s) + 1}}

\* str::trim_start_matches('\n')
RECURSIVE trim_start_newlines(_)
trim_start_newlines(s) ==
    IF s # <<>> /\ s[1] = "\n" THEN trim_start_newlines(Tail(s)) ELSE s

\* ensure_skill_name_in_frontmatter
ensure_skill_name_in_frontmatter(content, name) ==
    IF ~starts_with(content, Dashes)
    THEN Dashes \o <<"\n", "name", ":", " ">> \o name \o <<"\n">> \o Dashes \o <<"\n">> \o content
    ELSE LET after == SubSeq(content, 4, Len(content))
             end_idx == find(after, Dashes)
             frontmatter == SubSeq(after, 1, end_idx)
             rest == SubSeq(after, end_idx + 1, Len(after))
             has_name ==
                \E line \in lines(frontmatter) :
                    \/ starts_with(trim(line), <<"name", ":">>)
                    \/ starts_with(trim(line), <<"name", " ", ":">>)
         IN  IF end_idx = 0 - 1 THEN content
             ELSE IF has_name THEN content
             ELSE Dashes \o <<"\n", "name", ":", " ">> \o name \o <<"\n">>
                  \o trim(frontmatter) \o <<"\n">> \o trim_start_newlines(rest)

NoDoc == <<"unset">>

\* No skill is written.
SkillRest ==
    /\ skill_content = <<>>
    /\ skill_md = NoDoc

\* write_skills_to_workspace for one skill: SKILL.md gets the content with
\* the name in its frontmatter.
WriteSkill ==
    /\ skill_md = NoDoc
    /\ skill_md' = ensure_skill_name_in_frontmatter(skill_content, skill_name)
    /\ UNCHANGED <<skill_content, offSkill>>

ToolRest == SsrfRest /\ DlRest /\ RcRest /\ DsRest /\ SkillRest /\ ShellRest /\ SdRest /\ TaskRest /\ SecRest /\ LockRest

\* ------------------------------------------------------------ specification

\* The program with the workspace store, the upload and the sanitizer unused.
Init == ConsoleInit /\ StoreRest /\ UploadRest /\ SanRest /\ ToolRest


HandlerNext ==
    \E h \in Handlers :
        \/ \E k \in Keys : Upgrade(h, k)
        \/ ReadPool(h)
        \/ LockSession(h)
        \/ CheckReuse(h)
        \/ ExistingLock(h)
        \/ ExistingChannels(h)
        \/ SpawnSession(h)
        \/ SpawnFail(h)
        \/ InsertWriteLock(h)
        \/ InsertCheck(h)
        \/ InsertReplace(h)
        \/ Disconnect(h)
        \/ DetachLock(h)
        \/ DetachSet(h)

ReaperNext ==
    \/ ReaperWake
    \/ ReaperFilter
    \/ \E k \in Keys : ReaperRemove(k)
    \/ ReaperDone
    \/ Tick

ChildNext ==
    \E s \in SessionIds : ChildExit(s)

IoNext ==
    \/ \E s \in SessionIds : ReaderRead(s)
    \/ \E h \in Handlers : PumpRecv(h) \/ PumpSend(h)

InNext ==
    \/ \E h \in Handlers, kind \in FrameKinds : WsRecv(h, kind)
    \/ \E s \in SessionIds : WriterApply(s)

\* The session pool: handlers, cleanup task and clock.
Next == HandlerNext \/ ReaperNext \/ ChildNext

Spec == Init /\ [][Next]_vars

\* The session IO: handlers and the reader and pump tasks.  No time passes, so
\* no session expires; sessions still end by replacement.
IoStep == HandlerNext \/ ChildNext \/ IoNext

IoSpec == Init /\ [][IoStep]_vars

\* The session input: handlers, their WS -> PTY loops and the writer tasks.
InStep == HandlerNext \/ InNext

InSpec == Init /\ [][InStep]_vars

RequestNext ==
    \E c \in Clients :
        \/ \E type \in {"host", "chroot"} : Add(c, type)
        \/ \E id \in WsIds : Delete(c, id)
        \/ SaveOpen(c)
        \/ SaveWrite(c)
        \/ \E id \in WsIds : BuildGet(c, id)
        \/ BuildStart(c)
        \/ \E same, destroyed \in BOOLEAN : BuildProbe(c, same, destroyed)
        \/ \E ok \in BOOLEAN : BuildCreate(c, ok)
        \/ Update(c)
        \/ Return(c)

\* The workspace store: construction, requests, and the end of the process.
StoreInit == ConsoleInit /\ StoreFirstBoot /\ UploadRest /\ SanRest /\ ToolRest

StoreNext == New \/ Crash \/ RequestNext

StoreSpec == StoreInit /\ [][StoreNext]_vars

\* Restarts alone: the store is constructed again and again over the same
\* working directory.
RestartNext == New \/ Crash

RestartInit == ConsoleInit /\ StoreBoot /\ UploadRest /\ SanRest /\ ToolRest

RestartSpec == RestartInit /\ [][RestartNext]_vars

\* One chunked upload: chunks arrive in any order, also again and while
\* upload_finalize runs; upload_finalize is called with any total_chunks.
UploadNext ==
    \/ \E i \in ChunkIndexes, data \in Payloads : UploadChunk(i, data)
    \/ \E n \in 1..MaxParts : FinalizeStart(n)
    \/ FinalizeRefuse
    \/ FinalizeRead
    \/ FinalizeFlush
    \/ \E moved \in BOOLEAN : FinalizeMove(moved)
    \/ FinalizeReturn

UploadSpec == Init /\ [][UploadNext]_vars

\* The sanitizer on every string up to MaxStrLen characters.
SanInit ==
    /\ ConsoleInit /\ StoreRest /\ UploadRest /\ ToolRest
    /\ san_in \in Strings /\ san_out = NoString

SanSpec == SanInit /\ [][Sanitize]_vars

\* The SSRF guard on every URL.
SsrfInit ==
    /\ ConsoleInit /\ StoreRest /\ UploadRest /\ SanRest
    /\ ssrf_url \in Urls /\ ssrf_ret = "none"
    /\ DlRest /\ RcRest /\ DsRest /\ SkillRest /\ ShellRest /\ SdRest /\ TaskRest /\ SecRest /\ LockRest

SsrfSpec == SsrfInit /\ [][ValidateUrl]_vars

\* One download-url request.
DlInit ==
    /\ ConsoleInit /\ StoreRest /\ UploadRest /\ SanRest
    /\ SsrfRest /\ RcRest /\ DsRest /\ SkillRest /\ ShellRest /\ SdRest /\ TaskRest /\ SecRest /\ LockRest
    /\ DlStart

DlNext ==
    \/ DlValidate
    \/ \E failed \in BOOLEAN : DlSend(failed)
    \/ DlFinal
    \/ \E success, written \in BOOLEAN : DlWrite(success, written)

DlSpec == DlInit /\ [][DlNext]_vars

\* run_command with every command, and standard input or none.
CmdInit ==
    /\ ConsoleInit /\ StoreRest /\ UploadRest /\ SanRest
    /\ SsrfRest /\ DlRest /\ DsRest /\ SkillRest /\ ShellRest /\ SdRest /\ TaskRest /\ SecRest /\ LockRest
    /\ RcStart(Commands, {a \in ArgsOver({"stdin"}) : Given(a, "stdin") => a["stdin"] > PIPE_CAPACITY})

CmdSpec == CmdInit /\ [][RcNext]_vars

\* run_command with every max_output_chars.
OutInit ==
    /\ ConsoleInit /\ StoreRest /\ UploadRest /\ SanRest
    /\ SsrfRest /\ DlRest /\ DsRest /\ SkillRest /\ ShellRest /\ SdRest /\ TaskRest /\ SecRest /\ LockRest
    /\ RcStart({Ls}, ArgsOver({"max_output_chars", "stdin"}))

OutSpec == OutInit /\ [][RcNext]_vars

\* run_command with every timeout and standard input.
TimeInit ==
    /\ ConsoleInit /\ StoreRest /\ UploadRest /\ SanRest
    /\ SsrfRest /\ DlRest /\ DsRest /\ SkillRest /\ ShellRest /\ SdRest /\ TaskRest /\ SecRest /\ LockRest
    /\ RcStart({Ls}, ArgsOver({"timeout_ms", "timeout_secs", "timeout", "stdin"}))

TimeSpec == TimeInit /\ [][RcNext]_vars

\* One desktop stream, with every query.
DsInit ==
    /\ ConsoleInit /\ StoreRest /\ UploadRest /\ SanRest
    /\ SsrfRest /\ DlRest /\ RcRest /\ SkillRest /\ ShellRest /\ SdRest /\ TaskRest /\ SecRest /\ LockRest
    /\ DsStart(StreamParams)

DsSpec == DsInit /\ [][DsNext]_vars

\* One desktop stream with the default query.  The runtime polls a task that
\* can run: the receive task and the handler's select make progress.
DsLiveInit ==
    /\ ConsoleInit /\ StoreRest /\ UploadRest /\ SanRest
    /\ SsrfRest /\ DlRest /\ RcRest /\ SkillRest /\ ShellRest /\ SdRest /\ TaskRest /\ SecRest /\ LockRest
    /\ DsStart({<<>>})

DsLiveSpec ==
    /\ DsLiveInit
    /\ [][DsNext]_vars
    /\ WF_vars(RecvNext)
    /\ WF_vars(RecvEnd)
    /\ WF_vars(Select)

\* ensure_skill_name_in_frontmatter on every content of up to MaxBlocks
\* blocks.
SkillInit ==
    /\ ConsoleInit /\ StoreRest /\ UploadRest /\ SanRest
    /\ SsrfRest /\ DlRest /\ RcRest /\ DsRest /\ ShellRest /\ SdRest /\ TaskRest /\ SecRest /\ LockRest
    /\ skill_content \in DocsOf(MaxBlocks)
    /\ skill_md = NoDoc

SkillSpec == SkillInit /\ [][WriteSkill]_vars

\* Workspace shells next to builds: the program starts over a workspaces.json
\* that holds a container workspace in any status; shell requests, console
\* handlers, and one client that builds workspaces.
ShellInit ==
    /\ ConsoleInit /\ StoreDown /\ UploadRest /\ SanRest
    /\ SsrfRest /\ DlRest /\ RcRest /\ DsRest /\ SkillRest /\ ShellRest /\ SdRest /\ TaskRest /\ SecRest /\ LockRest
    /\ disk \in {f \in OldFiles :
                    /\ f.state = "full"
                    /\ f.data[DEFAULT_WORKSPACE_ID] = default_host
                    /\ f.data[OldId] # Absent}
    /\ dirs \in {d \in [Dirs -> DirStates] :
                    /\ d["containers/a"] = "none"
                    /\ (disk.data[OldId].status = "ready") = (d["chroots/a"] = "rootfs")}

ShellNext ==
    \/ New
    \/ \E h \in Handlers :
        \/ \E id \in ShellIds, authorized \in BOOLEAN : WorkspaceShellWs(h, id, authorized)
        \/ ShellReadPool(h)
        \/ ShellCheckReuse(h)
        \/ \E spawned \in BOOLEAN : NewWorkspaceShell(h, spawned)
        \/ ExistingLock(h)
        \/ ExistingChannels(h)
        \/ InsertWriteLock(h)
        \/ InsertCheck(h)
        \/ InsertReplace(h)
        \/ Disconnect(h)
        \/ DetachLock(h)
        \/ DetachSet(h)
    \/ \E c \in {Builder} :
        \/ SaveOpen(c)
        \/ SaveWrite(c)
        \/ \E id \in ShellIds : BuildGet(c, id)
        \/ BuildStart(c)
        \/ \E same, destroyed \in BOOLEAN : BuildProbe(c, same, destroyed)
        \/ \E ok \in BOOLEAN : BuildCreate(c, ok)
        \/ Update(c)
        \/ Return(c)

ShellSpec == ShellInit /\ [][ShellNext]_vars

\* The graceful shutdown over any set of control sessions.  A task that can
\* run does run: shutdown_signal goes on when its send or its reply is
\* ready, and an actor takes a command that is in its channel.
SdInit ==
    /\ ConsoleInit /\ StoreRest /\ UploadRest /\ SanRest
    /\ SsrfRest /\ DlRest /\ RcRest /\ DsRest /\ SkillRest /\ ShellRest /\ TaskRest /\ SecRest /\ LockRest
    /\ \E cs \in SUBSET Controls : SdStart(cs)

SdSpec ==
    /\ SdInit /\ [][SdNext]_vars
    /\ WF_vars(ShutdownSend)
    /\ WF_vars(ShutdownAwait)
    /\ WF_vars(\E i \in Controls : ActorShutdown(i))

\* The tasks of one user: created, run in the background, stopped.
TaskInit ==
    /\ ConsoleInit /\ StoreRest /\ UploadRest /\ SanRest
    /\ SsrfRest /\ DlRest /\ RcRest /\ DsRest /\ SkillRest /\ ShellRest /\ SdRest
    /\ TaskRest /\ SecRest /\ LockRest

TaskSpec == TaskInit /\ [][TaskNext]_vars

\* The secrets store under one caller, one operation after the other.
SecInit ==
    /\ ConsoleInit /\ StoreRest /\ UploadRest /\ SanRest
    /\ SsrfRest /\ DlRest /\ RcRest /\ DsRest /\ SkillRest /\ ShellRest /\ SdRest
    /\ TaskRest /\ LockRest
    /\ SecStart

SecSpec == SecInit /\ [][SecNext]_vars

\* The locks of the secrets store under concurrent callers.
LockInit ==
    /\ ConsoleInit /\ StoreRest /\ UploadRest /\ SanRest
    /\ SsrfRest /\ DlRest /\ RcRest /\ DsRest /\ SkillRest /\ ShellRest /\ SdRest
    /\ TaskRest /\ SecRest
    /\ LockRest

LockSpec == LockInit /\ [][LockNext]_vars

\* ---------------------------------------------------------------- claims

\* A handler that has claimed a session (reused it, or inserted its new one)
\* and has not started to detach, on a session marked in use.
Bridged(h) ==
    /\ pc[h] \in {"existing_lock", "existing_chan", "attached"}
    /\ hsess[h] # NoSession
    /\ sess[hsess[h]].in_use

Idle(s) == Created(s) /\ ~sess[s].in_use /\ sess[s].disconnected_at # None

Age(s) == now - sess[s].disconnected_at

\* C1: for each session key, at most one handler is attached to a session of
\* that key marked in_use, in every reachable state of the pool.
C1_OneInUseHandlerPerKey ==
    \A h1, h2 \in Handlers :
        (h1 # h2 /\ Bridged(h1) /\ Bridged(h2)) => hkey[h1] # hkey[h2]

\* C2: an upgrade that finds a pool entry for its key while no other connection
\* for the key exists finds it idle with its input channel open, and an upgrade
\* that finds the entry idle at its reuse test marks it in use, clears
\* disconnected_at and goes on to bridge to that session's channels; it spawns
\* no session and leaves the pool map alone.
C2_FoundIdle ==
    \A h \in Handlers :
        (/\ pc[h] \in {"lock_check", "check"}
         /\ \A h2 \in Handlers \ {h} : hkey[h2] # hkey[h])
        => (~sess[hsess[h]].in_use /\ ~IsClosed(hsess[h]))

C2_ReuseStep ==
    \A h \in Handlers :
        /\ (pc[h] = "check" /\ pc'[h] # "check" /\ ~sess[hsess[h]].in_use)
           => /\ sess'[hsess[h]].in_use
              /\ sess'[hsess[h]].disconnected_at = None
              /\ pc'[h] = "existing_lock"
              /\ hsess'[h] = hsess[h]
              /\ nextSid' = nextSid
              /\ sessions' = sessions
        /\ (pc[h] \in {"existing_lock", "existing_chan"} /\ pc'[h] # pc[h])
           => /\ pc'[h] \in {"existing_chan", "attached"}
              /\ hsess'[h] = hsess[h]
              /\ nextSid' = nextSid
              /\ sessions' = sessions

C2_ReuseIdleSession == []C2_FoundIdle /\ [][C2_ReuseStep]_vars

\* C2 witness: a handler bridges to a session it did not create, which is in
\* use again with no timestamp, while the pool still maps the key to it.
C2_Witness ==
    \E h \in Handlers :
        /\ pc[h] = "existing_chan"
        /\ sessions[hkey[h]] = hsess[h]
        /\ sess[hsess[h]].in_use
        /\ sess[hsess[h]].disconnected_at = None
        /\ sess[hsess[h]].child = "present"

\* C3: a sweep of the cleanup task removes a pool entry only of a session that
\* is, at that moment, not in use and disconnected for longer than
\* SESSION_POOL_TIMEOUT; it never removes or kills a session marked in use.
C3_ReaperSparesInUse ==
    [][\A k \in Keys :
          (rpc = "remove" /\ sessions[k] # NoSession /\ sessions'[k] = NoSession)
          => /\ ~sess[sessions[k]].in_use
             /\ sess[sessions[k]].disconnected_at # None
             /\ Age(sessions[k]) > SESSION_POOL_TIMEOUT]_vars

\* C4: the child of an idle session (disconnected_at = t) is killed by no
\* path - sweep, stale-entry replacement, contention cleanup - before the
\* cleanup task observes now - t > SESSION_POOL_TIMEOUT; and now - t >= 0.
C4_IdleChildKeptUntilExpiry ==
    [][\A s \in SessionIds :
          /\ Idle(s) => Age(s) >= 0
          /\ (Idle(s) /\ sess[s].child = "present" /\ sess'[s].child = "taken")
             => (rpc = "remove" /\ Age(s) > SESSION_POOL_TIMEOUT)]_vars

\* C5: when a new session reaches the insert step and the pool's entry for
\* its key is in use (by a handler bridged to it, not one that is detaching),
\* the new path kills its own child and ends (socket closed), and the entry,
\* its session and its child are left as they are.
C5_ContentionSparesInUse ==
    [][\A h \in Handlers :
          (/\ pc[h] = "insert_check" /\ pc'[h] # "insert_check"
           /\ sessions[hkey[h]] # NoSession
           /\ sess[sessions[hkey[h]]].in_use
           /\ \E h2 \in Handlers : Bridged(h2) /\ hsess[h2] = sessions[hkey[h]])
          => /\ pc'[h] = "idle"
             /\ sess'[hsess[h]].child = "taken"
             /\ sessions' = sessions
             /\ sess'[sessions[hkey[h]]] = sess[sessions[hkey[h]]]]_vars

\* C6: once a session's WebSocket has closed and no connection for its key
\* is under way, its child does not outlive the close by more than the
\* timeout plus the sweep period (the bound the claim gives, read with the
\* cleanup task sweeping every CLEANUP_INTERVAL).
C6_ChildOutlivesCloseBounded ==
    \A s \in SessionIds :
        (/\ Idle(s)
         /\ sess[s].child = "present"
         /\ \A h \in Handlers : hkey[h] # sess[s].key)
        => Age(s) <= SESSION_POOL_TIMEOUT + CLEANUP_INTERVAL

\* C7: once the child of a pooled session has exited, an upgrade for its key
\* does not reuse the session: its reuse test fails and it spawns a new one.
C7_ExitedSessionNotReused ==
    [][\A h \in Handlers :
          (pc[h] = "check" /\ pc'[h] # "check" /\ sess[hsess[h]].exited)
          => pc'[h] = "spawn"]_vars

\* C8: kill is invoked on the child of a session at most once.
C8_KilledAtMostOnce ==
    \A s \in SessionIds : sess[s].kills <= 1

\* C8 witness: an expired session has been swept: its child was taken out of
\* the handle and killed, and later sweeps have run.
C8_Witness ==
    \E s \in SessionIds :
        /\ sess[s].kills = 1
        /\ sess[s].child = "taken"
        /\ Idle(s)
        /\ Age(s) >= SESSION_POOL_TIMEOUT + 2 * CLEANUP_INTERVAL

\* C9: for every session, disconnected_at is None exactly when in_use holds.
C9_StampIffIdle ==
    \A s \in SessionIds :
        Created(s) => ((sess[s].disconnected_at = None) <=> sess[s].in_use)

\* C9 witness: a session that was released with a timestamp is in use again
\* with the timestamp cleared, next to a released session.
C9_Witness ==
    /\ \E h \in Handlers : pc[h] = "attached" /\ sessions[hkey[h]] = hsess[h]
           /\ sess[hsess[h]].in_use /\ sess[hsess[h]].disconnected_at = None
    /\ \E s \in SessionIds : Idle(s) /\ sess[s].disconnected_at > 0

\* C10: for each session, the chunks written to client sockets - over one
\* attachment or several - are in the order the reader task read them: none
\* before an earlier-read chunk, none twice.
C10_DeliveredInReadOrder ==
    \A s \in SessionIds :
        \A i, j \in 1..Len(delivered[s]) :
            i < j => delivered[s][i] < delivered[s][j]

\* C10 witness: two chunks of a session have been delivered and the session
\* is being bridged again by a handler that reused it.
C10_Witness ==
    \E s \in SessionIds :
        /\ Len(delivered[s]) >= 2
        /\ sess[s].disconnected_at = None
        /\ \E h \in Handlers : pc[h] = "existing_chan" /\ hsess[h] = s

\* The frames of socket h in a sequence of input messages, by their numbers.
RECURSIVE FramesOf(_, _)
FramesOf(q, h) ==
    IF q = <<>> THEN <<>>
    ELSE IF Head(q)[1] = h THEN <<Head(q)[2]>> \o FramesOf(Tail(q), h)
    ELSE FramesOf(Tail(q), h)

Increasing(q) == \A i, j \in 1..Len(q) : i < j => q[i] < q[j]

\* C11: for every session and every socket, the Input and Resize frames the
\* writer task has applied, followed by those still in the input channel, are
\* in the order the socket received them: none before an earlier frame, none
\* twice.
C11_AppliedInSocketOrder ==
    \A s \in SessionIds, h \in Handlers :
        Increasing(FramesOf(applied[s] \o to_pty[s], h))

\* C11 witness: the writer of one session has applied two frames of the same
\* socket, an Input and a Resize.
C11_Witness ==
    \E s \in SessionIds, h \in Handlers :
        /\ Len(FramesOf(applied[s], h)) >= 2
        /\ \E i, j \in 1..Len(applied[s]) :
              applied[s][i][3] = "Input" /\ applied[s][j][3] = "Resize"

\* The workspace of the nil id.
Default == workspaces[DEFAULT_WORKSPACE_ID]

\* No client is between the change of the map and the end of its save.
AllReturned == \A c \in Clients : cpc[c] \notin {"save", "writing"}

\* C12: in every state of the constructed store - whatever workspaces.json
\* held, and after any add, update and delete - a workspace with the nil id
\* exists and has status ready.
C12_DefaultExistsReady ==
    up => (Default # Absent /\ Default.status = "ready")

C14_NoOverlap ==
    \A c1, c2 \in Clients : (cpc[c1] = "writing" /\ cpc[c2] = "writing") => c1 = c2

C14_WritesSerializedAtomic ==
    []C14_NoOverlap /\ [][(~up /\ up') => disk.state # "partial"]_vars

\* The status changes of the claim.
StatusMoves ==
    {<<"pending", "building">>, <<"building", "ready">>,
     <<"building", "error">>, <<"error", "building">>}

\* C15: the status of a container workspace changes only pending->building,
\* building->ready, building->error, error->building; build_chroot_workspace
\* moves no workspace that is ready or already building to building.
C15_StatusMoves ==
    [][\A c \in Clients :
          (/\ cws[c].type = "chroot" /\ cws'[c].type = "chroot"
           /\ cws'[c].status # cws[c].status)
          => <<cws[c].status, cws'[c].status>> \in StatusMoves]_vars

\* C16: delete of the nil id returns false and leaves the map and
\* workspaces.json as they are, and the map of the constructed store always
\* has an entry for the nil id.
C16_DeleteStep ==
    \A c \in Clients :
        (cpc[c] = "idle" /\ call'[c].op = "delete" /\ call'[c].id = DEFAULT_WORKSPACE_ID)
        => /\ call'[c].ret = FALSE
           /\ cpc'[c] = "returned"
           /\ workspaces' = workspaces
           /\ disk' = disk

C16_DeleteNilFails ==
    [](up => Default # Absent) /\ [][C16_DeleteStep]_vars

\* C16 witness: delete of the nil id has returned false, next to a workspace
\* that was added.
C16_Witness ==
    /\ up
    /\ \E c \in Clients :
          /\ cpc[c] = "returned"
          /\ call[c] = [op |-> "delete", id |-> DEFAULT_WORKSPACE_ID, ret |-> FALSE]
    /\ \E i \in WsIds \ {DEFAULT_WORKSPACE_ID} : workspaces[i] # Absent
    /\ Default # Absent

\* The container workspaces that refer to directory d.
Referring(d) == {i \in WsIds : workspaces[i].type = "chroot" /\ workspaces[i].path = d}

\* C17: a construction that follows an earlier one over the same working
\* directory adds no workspace (the map it stores is the file it loaded, and
\* no id is drawn), and in the constructed store every container directory
\* is referred to by exactly one workspace.
C17_SecondBootAddsNone ==
    (~up /\ up' /\ boots >= 1)
    => (workspaces' = disk.data /\ disk' = disk /\ nextId' = nextId)

C17_OncePerDirectory ==
    up => \A d \in Dirs : dirs[d] # "none" => Cardinality(Referring(d)) = 1

RECURSIVE InIndexOrder(_)
InIndexOrder(n) ==
    IF n = 0 THEN <<>>
    ELSE InIndexOrder(n - 1) \o chunk_dir.entries[EntryOf(n - 1)].data

\* C18: when upload_finalize(k, N) succeeds after all chunks 0 .. N-1 have
\* arrived, in whatever order, the destination file holds the chunks one
\* after the other in index order.
C18_ConcatInIndexOrder ==
    [][(fpc = "move" /\ fret' = "ok" /\ ~racing)
       => /\ \A i \in 0..(fN - 1) : EntryOf(i) # 0
          /\ dest' = InIndexOrder(fN)]_vars

\* C18 witness: all MaxParts chunks arrived, the first to arrive was not
\* chunk 0, no two hold the same bytes, and upload_finalize has assembled
\* them in index order and is about to move the file.
C18_Witness ==
    /\ fpc = "move"
    /\ fN = MaxParts
    /\ ~racing
    /\ Len(chunk_dir.entries) = MaxParts
    /\ chunk_dir.entries[1].idx # 0
    /\ \A m, n \in 1..Len(chunk_dir.entries) :
          m # n => chunk_dir.entries[m].data # chunk_dir.entries[n].data
    /\ assembled = InIndexOrder(fN)

\* C19: when upload_finalize returns, with Ok or with any Err, the chunk
\* directory of its upload id does not exist.
C19_ChunkDirGoneOnReturn ==
    [][(fpc # "returned" /\ fpc' = "returned") => ~chunk_dir'.exists]_vars

Has(s, c) == \E i \in 1..Len(s) : s[i] = c

HasDotDot(s) == \E i \in 1..(Len(s) - 1) : s[i] = "." /\ s[i + 1] = "."

\* C20: for every string s, sanitize_path_component(s) contains no '/', no
\* '\', no ".." and no NUL.
C20_SanitizedIsClean ==
    san_out # NoString
    => (~Has(san_out, "/") /\ ~Has(san_out, "\\") /\ ~Has(san_out, "NUL") /\ ~HasDotDot(san_out))

\* ------------------------------------------------------------------- C21
\* The addresses the host of a URL is or resolves to.
AddressesOf(url) ==
    IF url.host.is = "domain" THEN url.host.dns ELSE {url.host.ip}

\* C21: every URL whose host is, or resolves to, an internal address (IPv4
\* loopback, private, link-local, documentation, broadcast, unspecified,
\* metadata; IPv6 loopback, unspecified, unique-local, link-local,
\* IPv4-mapped internal; literals included) is rejected by the guard.
C21_InternalRejected ==
    (ssrf_ret # "none" /\ \E a \in AddressesOf(ssrf_url) : is_internal_ip(a))
        => ssrf_ret # "Ok"

\* ------------------------------------------------------------------- C22
\* C22: the guard is applied to the requested URL before any request is sent
\* and to the final URL after the redirects, of which at most 5 are followed;
\* when either check fails the status is 400 and nothing is written to the
\* destination path.
C22_GuardedDownload ==
    /\ dl_sent # <<>> => validate_url_for_ssrf(dl_url) = "Ok"
    /\ Len(dl_sent) <= 1 + REDIRECT_LIMIT
    /\ dl_dest # NoUrl =>
          /\ dl_dest = dl_final
          /\ validate_url_for_ssrf(dl_final) = "Ok"
    /\ (dl_pc = "done" /\ validate_url_for_ssrf(dl_url) # "Ok") =>
          dl_status = 400 /\ dl_dest = NoUrl /\ dl_sent = <<>>
    /\ (dl_pc = "done" /\ dl_final # NoUrl /\ validate_url_for_ssrf(dl_final) # "Ok") =>
          dl_status = 400 /\ dl_dest = NoUrl

\* A download that followed five redirects to a blocked URL has returned.
C22_Witness ==
    /\ dl_pc = "done"
    /\ Len(dl_sent) = 1 + REDIRECT_LIMIT
    /\ dl_final = PrivateUrl
    /\ dl_status = 400
    /\ dl_dest = NoUrl

\* ------------------------------------------------------------------- C23
\* The trimmed command, or the trimmed command without one leading prefix,
\* starts with the pattern at index i.
StartsDangerous(cmd, i) ==
    LET t == trim(cmd)
        pattern == DANGEROUS_PATTERNS[i].pattern
    IN  \/ Len(t) >= Len(pattern) /\ SubSeq(t, 1, Len(pattern)) = pattern
        \/ \E j \in 1..Len(prefixes) :
              LET p == prefixes[j]
                  n == Len(p) + Len(pattern)
              IN  Len(t) >= n /\ SubSeq(t, 1, n) = p \o pattern

\* C23: a command that starts with a dangerous pattern (trimmed, or trimmed
\* and without a leading sudo, time, nice or nohup) is rejected with the
\* suggestion of a pattern it starts with and no process is spawned; every
\* other command is passed to the runner.
C23_DangerousRejected ==
    rc_pc \notin {"idle", "validate"} =>
        IF \E i \in 1..Len(DANGEROUS_PATTERNS) : StartsDangerous(rc_cmd, i)
        THEN /\ rc_pc = "done"
             /\ rc_ret.kind = "Blocked"
             /\ \E i \in 1..Len(DANGEROUS_PATTERNS) :
                   /\ StartsDangerous(rc_cmd, i)
                   /\ rc_ret.suggestion = DANGEROUS_PATTERNS[i].suggestion
             /\ rc_spawns = 0
             /\ rc_child = "none"
        ELSE /\ rc_ret.kind # "Blocked"
             /\ rc_pc = "done" => rc_ret.kind # "none"

\* "  sudo find / x" has been rejected.
C23_Witness ==
    /\ rc_cmd = <<" ">> \o prefixes[1] \o DANGEROUS_PATTERNS[1].pattern \o <<"x">>
    /\ rc_pc = "done"
    /\ rc_ret.kind = "Blocked"
    /\ rc_spawns = 0

\* ------------------------------------------------------------------- C24
\* C24: the string run_command returns is never longer than the effective
\* max_output_chars (the requested one clamped to [1, 50000], 10000 when
\* absent).
C24_OutputWithinLimit ==
    rc_ret.kind = "Ok" => rc_ret.len <= parse_max_output_chars(rc_args)

\* ------------------------------------------------------------------- C25
\* C25: when the process has not exited at the end of the effective timeout
\* run_command returns a timeout error, and run_command is never blocked
\* past the timeout.
C25_ReturnsByTimeout ==
    /\ (rc_pc = "done" /\ rc_child = "running") => rc_ret.kind = "Command timed out"
    /\ rc_pc \in {"stdin", "wait"} => rc_now <= rc_started + parse_timeout(rc_args)

Stopped(task) == task \in {"ended", "aborted"}

\* C29: when the receive task or the capture task ends the other one is
\* stopped; after the client has closed the socket the capture loop
\* eventually stops, and once it has stopped it captures and sends nothing.
C29_OtherTaskAborted ==
    /\ (recv_task = "ended") ~> Stopped(stream_task)
    /\ (stream_task = "ended") ~> Stopped(recv_task)
    /\ (client = "closed") ~> Stopped(stream_task)
    /\ [][Stopped(stream_task) =>
            /\ stream_task' = stream_task
            /\ frame_count' = frame_count]_vars

\* The client has closed the socket of a paused stream that had sent a
\* frame, and the capture task has been aborted.
C29_Witness ==
    /\ client = "closed"
    /\ paused
    /\ frame_count > 0
    /\ recv_task = "ended"
    /\ stream_task = "aborted"

\* ------------------------------------------------------------------- C27
\* The first frontmatter block of a document: what is between the "---" it
\* starts with and the next "---".
FirstBlock(doc) ==
    LET after == SubSeq(doc, 4, Len(doc))
    IN  SubSeq(after, 1, find(after, Dashes))

HasFirstBlock(doc) ==
    starts_with(doc, Dashes) /\ find(SubSeq(doc, 4, Len(doc)), Dashes) >= 0

Idempotent ==
    skill_md # NoDoc => ensure_skill_name_in_frontmatter(skill_md, skill_name) = skill_md

\* C27: ensure_skill_name_in_frontmatter is idempotent and its result has a
\* line `name: n` inside the first frontmatter block.
C27_NameInFrontmatter ==
    skill_md # NoDoc =>
        /\ ensure_skill_name_in_frontmatter(skill_md, skill_name) = skill_md
        /\ HasFirstBlock(skill_md)
        /\ \E line \in lines(FirstBlock(skill_md)) :
              line = <<"name", ":", " ">> \o skill_name

\* ------------------------------------------------------------------- C28
\* A shell request that is answered 404 or 400 spawns nothing and leaves
\* the pool and the handler as they are.
RejectedBeforeUpgrade ==
    \A h \in Handlers :
        resp'[h] # resp[h] /\ resp'[h] \in {"NOT_FOUND", "BAD_REQUEST"} =>
            /\ pc'[h] = "idle"
            /\ UNCHANGED <<sessions, sess, nextSid, hsess>>

\* The requests for an unknown id and for a container that is not ready are
\* the ones answered 404 and 400.
RejectedWhenNotReady ==
    \A h \in Handlers :
        resp'[h] = "upgrade" /\ pc[h] = "idle" /\ pc'[h] = "shell_read_pool" =>
            /\ workspaces[workspace_id'[h]] # Absent
            /\ workspaces[workspace_id'[h]].type = "chroot" =>
                  workspaces[workspace_id'[h]].status = "ready"

\* No session's shell was spawned for a container workspace that was not ready.
NoShellUnlessReady ==
    \A s \in SessionIds :
        shell_ws[s].type = "chroot" => shell_ws[s].status = "ready"

\* C28: a workspace-shell request for an unknown id or a container that is
\* not ready is rejected with 404 / 400 before the upgrade, spawning nothing
\* and leaving the pool unchanged; no shell session is ever created for a
\* container workspace that is not ready.
C28_NoShellForUnreadyContainer ==
    /\ [][RejectedBeforeUpgrade /\ RejectedWhenNotReady]_vars
    /\ []NoShellUnlessReady

\* ------------------------------------------------------------------- C30
\* What the replies that were received held.
Replied == UNION {Range(respond[i].ids) : i \in {j \in Controls : respond[j].state = "taken"}}

\* shutdown_signal has returned: no session's actor runs on without having
\* taken the command, no reply is left unread, no mission is running, and
\* the reported ids are the ids of the replies, which are the interrupted
\* missions.
ShutdownComplete ==
    sd_pc = "done" =>
        /\ \A i \in control_sessions : actor[i] \in {"stopping", "ended"}
        /\ \A i \in Controls : ~cmd_queue[i] /\ respond[i].state \notin {"open", "sent"}
        /\ \A m \in MissionIds : missions[m] # "running"
        /\ Range(all_interrupted) = Replied
        /\ Range(all_interrupted) = {m \in MissionIds : missions[m] = "interrupted"}

SweepWithoutLock(k) ==
    /\ sessions[k] # NoSession
    /\ ~TryLock(sessions[k])
    /\ \/ rpc = "filter" /\ rpc' = "remove"
       \/ rpc = "remove" /\ k \in expired /\ k \notin expired'

\* C32: when the cleanup task cannot take the non-blocking lock on a
\* session, it skips it for this sweep: the entry stays in the pool and the
\* child stays in its handle, for a later sweep to retry.
C32_SkippedWhenLocked ==
    [][\A k \in Keys :
          SweepWithoutLock(k) =>
              /\ k \notin expired'
              /\ sessions'[k] = sessions[k]
              /\ sess'[sessions[k]].child = sess[sessions[k]].child]_vars

\* ------------------------------------------------------------------- C33
\* C33: build_chroot_workspace on a container workspace returns with the
\* workspace's status ready or error, never building.
C33_BuildEndsReadyOrError ==
    \A c \in Clients :
        cpc[c] = "built" => cws[c].status \in {"ready", "error"}

\* ------------------------------------------------------------------- C34
\* Handler h takes a step of its detach: the end of its receive loop with
\* the abort of the pump, the lock, or the assignment.
DetachStep(h) ==
    /\ pc[h] \in {"attached", "detach_lock", "detach_set"}
    /\ pc'[h] # pc[h]

\* The input channel of session s is open after the step.
OpenAfter(s) ==
    \/ \E k \in Keys : sessions'[k] = s
    \/ \E h \in Handlers : hsess'[h] = s

\* What a detach leaves alone: the pool map, every other session, and of its
\* own session the key, the child and its handle.
DetachFrame(h) ==
    /\ sessions' = sessions
    /\ \A s \in SessionIds :
          /\ s # hsess[h] => sess'[s] = sess[s]
          /\ sess'[s].key = sess[s].key
          /\ sess'[s].child = sess[s].child
          /\ sess'[s].kills = sess[s].kills
          /\ sess'[s].exited = sess[s].exited

\* What the last step of a detach sets.
DetachEffect(h) ==
    (pc[h] = "detach_set") =>
        /\ ~sess'[hsess[h]].in_use
        /\ sess'[hsess[h]].disconnected_at = now

\* C34: a handler that detaches sets in_use = false and disconnected_at =
\* now on its session and changes nothing else: the pool map and the other
\* sessions are unchanged, the child is not killed, and the session's
\* input channel stays open.
C34_DetachOnlyMarksIdle ==
    [][\A h \in Handlers :
          DetachStep(h) =>
              /\ DetachFrame(h)
              /\ DetachEffect(h)
              /\ OpenAfter(hsess[h])]_vars

\* ------------------------------------------------------------------- C35
\* The child of session s runs: it was spawned, not killed, and has not
\* exited on its own.
LiveChild(s) == Created(s) /\ sess[s].child = "present" /\ ~sess[s].exited

\* The handler that spawned s is still on its way to the pool insert.
BeingInserted(s) ==
    \E h \in Handlers :
        hsess[h] = s /\ pc[h] \in {"insert_wlock", "insert_check", "insert_replace"}

\* C35: no PTY child is leaked: every running child belongs to the session
\* that is the pool's entry for its key (or that is just being inserted),
\* where the cleanup task can reach it.
C35_NoChildLeaked ==
    \A s \in SessionIds :
        LiveChild(s) => (sessions[sess[s].key] = s \/ BeingInserted(s))

\* ------------------------------------------------------------------- C36
\* The chunks of session s that a pump has taken and is sending.
InPump(s) == {inflight[h] : h \in {g \in Handlers : hsess[g] = s}} \ {NoChunk}

\* C36: every chunk the reader task read is sent to a socket, in a pump
\* that is sending it, or still in the session's output channel: a detach
\* drops none.
C36_NoChunkDropped ==
    \A s \in SessionIds :
        \A n \in 1..produced[s] :
            n \in Range(delivered[s]) \cup Range(from_pty[s]) \cup InPump(s)

\* ------------------------------------------------------------------- C37
\* C37: every URL download_from_url has sent a request to, the first and
\* each hop of the redirect chain, passes the SSRF guard.
C37_EveryHopGuarded ==
    \A i \in 1..Len(dl_sent) : validate_url_for_ssrf(dl_sent[i]) = "Ok"

\* ------------------------------------------------------------------- C38
\* C38: when run_command has returned a timeout error, the process it
\* spawned is not running any more.
C38_TimedOutChildTerminated ==
    (rc_pc = "done" /\ rc_ret = Failed("Command timed out")) => rc_child # "running"

\* ------------------------------------------------------------------- C39
\* C39: a task that stop_task has set to Cancelled stays Cancelled: its
\* background run never overwrites the status.
C39_CancelledStays ==
    [][\A t \in TaskIds : tasks[t] = "Cancelled" => tasks'[t] = "Cancelled"]_vars

\* ------------------------------------------------------------------- C31
\* The operation that has just returned.
Returned(op) == sec_ret'.op = op /\ sec_ret' # sec_ret

\* On a store that holds a secret, an unlock that succeeds was given a
\* passphrase that decrypts a stored secret.
UnlockTestsPassphrase ==
    (Returned("unlock") /\ sec_ret'.res = "Ok" /\ Holding # {}) =>
        \E r \in Holding : \E k \in KeysOf(r) :
            decrypt(sec_ret'.value, registries[r].secrets[k]).ok

\* An unlock that fails leaves the store locked.
FailedUnlockLocks ==
    (Returned("unlock") /\ sec_ret'.res = "Invalid passphrase") => crypto' = ""

\* On a locked store get_secret and set_secret fail.
LockedFails ==
    ((Returned("get_secret") \/ Returned("set_secret")) /\ crypto = "") =>
        sec_ret'.res = "Secrets are locked"

\* get_secret(r, k) right after a set_secret(r, k, v) that succeeded
\* returns v.
SetThenGet ==
    (/\ Returned("get_secret")
     /\ sec_ret.op = "set_secret" /\ sec_ret.res = "Ok"
     /\ sec_ret'.reg = sec_ret.reg /\ sec_ret'.key = sec_ret.key) =>
        sec_ret'.res = "Ok" /\ sec_ret'.value = sec_ret.value

\* C31: on a store that holds a secret unlock(p) succeeds only if p
\* decrypts a stored secret; an unlock that fails with "Invalid passphrase"
\* leaves the store locked, where get_secret and set_secret fail; and on
\* an unlocked store set_secret(r, k, v) followed by get_secret(r, k)
\* returns v.
C31_UnlockAndRoundTrip ==
    [][UnlockTestsPassphrase /\ FailedUnlockLocks /\ LockedFails /\ SetThenGet]_vars

\* An unlock failed on a store that holds a secret, and the get_secret
\* after it was refused.
C31_Witness ==
    /\ sec_ret.op = "get_secret"
    /\ sec_ret.after = "unlock"
    /\ sec_ret.res = "Secrets are locked"
    /\ Holding # {}

\* ------------------------------------------------------------------- C40
\* Caller c cannot get lock l before caller d moves: d holds a guard that
\* excludes c's request, or d waits before c in the queue of l.
BlockedBy(c, d) ==
    \E l \in StoreLocks : \E i \in 1..Len(waiters[l]) :
        /\ waiters[l][i].caller = c
        /\ \/ d \in writer_of[l]
           \/ waiters[l][i].mode = "write" /\ d \in readers_of[l]
           \/ \E j \in 1..(i - 1) : waiters[l][j].caller = d

\* A set of callers each of which waits for a lock it cannot get before
\* another one of the set moves.
Deadlocked ==
    \E D \in SUBSET Callers :
        /\ D # {}
        /\ \A c \in D : Queued(c) /\ \E d \in D : d # c /\ BlockedBy(c, d)

\* C40: no interleaving of operations on the secrets store deadlocks on
\* its three locks, the locks being fair and write-preferring.
C40_NoDeadlock == ~Deadlocked

====
